---- MODULE Spec2Model ----
(***************************************************************************)
(* The financial calculators of the free-tools repository (EMI, simple /  *)
(* compound interest, SIP, retirement corpus, loan eligibility, FD) as a   *)
(* state machine: one action per exported calculator call, made from the   *)
(* idle state, and one action that discards the outcome.  The state is the *)
(* call in hand and what it produced (a result record or a thrown error).  *)
(*                                                                         *)
(* A JavaScript value is a tuple <<tag, n, d>>: tag "num" is the rational  *)
(* n/d in lowest terms (d > 0); the tags "undefined", "null" and "NaN" are *)
(* the non-numbers a missing argument produces.  Arithmetic is exact as    *)
(* long as numerator and denominator fit the machine word (MaxInt); when   *)
(* they do not, the operand with the longer fraction loses decimal places  *)
(* (round to nearest) until the result fits, the counterpart of a double's *)
(* rounding to 53 bits.  A result record is the tuple of the fields of the *)
(* returned object, in the order the source writes them; each field has an *)
(* accessor named after it.                                                *)
(***************************************************************************)
EXTENDS Integers, Sequences, FiniteSets, TLC

VARIABLES fn, args, outcome, error, result, stages, schedule, gradePoints, calls,
          responses

vars == <<fn, args, outcome, error, result, stages, schedule, gradePoints, calls,
          responses>>

----------------------------------------------------------------------------
(* JavaScript numbers                                                      *)

MaxInt == (2^30 - 1) + 2^30

Abs(x) == IF x < 0 THEN -x ELSE x

RECURSIVE GCD(_, _)
GCD(a, b) == IF b = 0 THEN a ELSE GCD(b, a % b)

\* n/d (d > 0) with the common divisor g taken out
Reduced(n, d, g) == <<"num", n \div g, d \div g>>

\* the rational n/d (d # 0) in lowest terms
Q(n, d) == Reduced(IF d < 0 THEN -n ELSE n, Abs(d), GCD(Abs(n), Abs(d)))

I(k) == <<"num", k, 1>>

Undefined == <<"undefined", 0, 1>>
Null == <<"null", 0, 1>>
NaN == <<"NaN", 0, 1>>

Tag(v) == v[1]
Numer(v) == v[2]
Denom(v) == v[3]

\* ToNumber: undefined -> NaN, null -> +0
ToNumber(v) ==
    IF Tag(v) = "undefined" THEN NaN ELSE IF Tag(v) = "null" THEN I(0) ELSE v

IsNum(v) == Tag(v) = "num"

\* !v : undefined, null, NaN and 0 are falsy
Falsy(v) == ~IsNum(v) \/ Numer(v) = 0

\* a < b, a <= b, a > b, a >= b: false as soon as a side converts to NaN
Lt(a, b) ==
    LET x == ToNumber(a)
        y == ToNumber(b)
    IN  IsNum(x) /\ IsNum(y) /\ Numer(x) * Denom(y) < Numer(y) * Denom(x)

Le(a, b) ==
    LET x == ToNumber(a)
        y == ToNumber(b)
    IN  IsNum(x) /\ IsNum(y) /\ Numer(x) * Denom(y) <= Numer(y) * Denom(x)

Gt(a, b) == Lt(b, a)

Ge(a, b) == Le(b, a)

\* a === b on numbers (NaN equals nothing, no conversion)
StrictEq(a, b) == IsNum(a) /\ a = b

\* whether a * b, a + b fit the machine word
FitsMul(a, b) == a = 0 \/ b = 0 \/ Abs(a) <= MaxInt \div Abs(b)

FitsAdd(a, b) == Abs(a) <= MaxInt - Abs(b)

\* for 0 <= rem < d and 0 <= s < d: <<c + c1, s1>> with
\* c1 * d + s1 = s + left * rem, formed by additions that stay below d
RECURSIVE TimesMod(_, _, _, _, _)
TimesMod(s, c, rem, d, left) ==
    IF left = 0 THEN <<c, s>>
    ELSE IF s >= d - rem
         THEN TimesMod(s - (d - rem), c + 1, rem, d, left - 1)
         ELSE TimesMod(s + rem, c, rem, d, left - 1)

\* the next decimal of rem/d: <<floor(10 rem / d), 10 rem mod d>>
DigitStep(rem, d) ==
    IF FitsMul(rem, 10)
    THEN <<(rem * 10) \div d, (rem * 10) % d>>
    ELSE TimesMod(0, 0, rem, d, 10)

RECURSIVE Decimals(_, _, _, _)
\* the decimal step s = <<digit, remainder>> taken, k - 1 decimals to go
DecimalsAfter(acc, s, d, k) == Decimals(acc * 10 + s[1], s[2], d, k - 1)

\* the first k decimals of rem/d appended to acc, and what remains
Decimals(acc, rem, d, k) ==
    IF k = 0 THEN <<acc, rem>>
    ELSE DecimalsAfter(acc, DigitStep(rem, d), d, k)

\* ds = <<the digits kept, the remainder out of d>> as a number of k
\* decimals, one unit up when the remainder is half of d or more
RoundedUp(ds, d, k) == Q(ds[1] + (IF ds[2] >= d - ds[2] THEN 1 ELSE 0), 10^k)

\* the number x rounded to k decimals, halves towards +infinity
RoundTo(x, k) ==
    RoundedUp(Decimals(Numer(x) \div Denom(x), Numer(x) % Denom(x), Denom(x), k),
              Denom(x), k)

\* how many decimals a denominator below d admits: the largest k with
\* 10^k < d (0 for d <= 10)
RECURSIVE DigitsBelow(_)
DigitsBelow(d) == IF d <= 10 THEN 0 ELSE 1 + DigitsBelow((d - 1) \div 10 + 1)

\* x with fewer decimal places than its denominator carries
Coarsen(x) == RoundTo(x, DigitsBelow(Denom(x)))

\* the one of x and y with the longer fraction coarsened: <<x, y>> after
Coarser(x, y, longer) ==
    IF Denom(x) >= Denom(y) THEN <<longer, y>> ELSE <<x, longer>>

RECURSIVE AddNum(_, _)
\* x + y over the common denominator l2 * Denom(y), where l1 = Denom(y) / g
\* and l2 = Denom(x) / g; when that does not fit, the sum of `pair`, x and
\* y with the longer fraction coarsened
AddOver(x, y, l1, l2, pair) ==
    IF \/ Denom(x) = 1 /\ Denom(y) = 1
       \/ /\ FitsMul(Numer(x), l1)
          /\ FitsMul(Numer(y), l2)
          /\ FitsMul(l2, Denom(y))
          /\ FitsAdd(Numer(x) * l1, Numer(y) * l2)
    THEN Q(Numer(x) * l1 + Numer(y) * l2, l2 * Denom(y))
    ELSE AddNum(pair[1], pair[2])

AddParts(x, y, g) ==
    AddOver(x, y, Denom(y) \div g, Denom(x) \div g,
            Coarser(x, y, Coarsen(IF Denom(x) >= Denom(y) THEN x ELSE y)))

AddNum(x, y) == AddParts(x, y, GCD(Denom(x), Denom(y)))

RECURSIVE MulNum(_, _)
\* (n1 * n2) / (d1 * d2), the cross divisors of x and y taken out; when
\* that does not fit (and x, y are not both whole), the product of `pair`
MulOver(n1, n2, d1, d2, whole, pair) ==
    IF whole \/ (FitsMul(n1, n2) /\ FitsMul(d1, d2))
    THEN Q(n1 * n2, d1 * d2)
    ELSE MulNum(pair[1], pair[2])

MulParts(x, y, g1, g2) ==
    MulOver(Numer(x) \div g1, Numer(y) \div g2, Denom(x) \div g2, Denom(y) \div g1,
            Denom(x) = 1 /\ Denom(y) = 1,
            Coarser(x, y, Coarsen(IF Denom(x) >= Denom(y) THEN x ELSE y)))

MulNum(x, y) ==
    MulParts(x, y, GCD(Abs(Numer(x)), Denom(y)), GCD(Abs(Numer(y)), Denom(x)))

\* a + b, -a, a - b, a * b, a / b with ToNumber applied to the operands
Add(a, b) ==
    LET x == ToNumber(a)
        y == ToNumber(b)
    IN  IF ~IsNum(x) \/ ~IsNum(y) THEN NaN ELSE AddNum(x, y)

Neg(a) ==
    LET x == ToNumber(a)
    IN  IF ~IsNum(x) THEN NaN ELSE <<"num", -Numer(x), Denom(x)>>

Sub(a, b) == Add(a, Neg(b))

Mul(a, b) ==
    LET x == ToNumber(a)
        y == ToNumber(b)
    IN  IF ~IsNum(x) \/ ~IsNum(y) THEN NaN ELSE MulNum(x, y)

\* A zero divisor gives NaN here (JavaScript: NaN for 0/0, an infinity
\* otherwise); no calculator reaches one, each divisor being a validated
\* non-zero input, a non-zero rate or factor - 1 with factor > 1.
Div(a, b) ==
    LET x == ToNumber(a)
        y == ToNumber(b)
    IN  IF ~IsNum(x) \/ ~IsNum(y) \/ Numer(y) = 0 THEN NaN
        ELSE MulNum(x, Q(Denom(y), Numer(y)))

\* Math.floor, Math.ceil
Floor(v) == IF ~IsNum(v) THEN NaN ELSE I(Numer(v) \div Denom(v))

Ceil(v) == IF ~IsNum(v) THEN NaN ELSE I(-((-Numer(v)) \div Denom(v)))

\* Math.round(v * 100) / 100, the rounding every calculator applies
Round2(v) ==
    LET x == ToNumber(v)
    IN  IF ~IsNum(x) THEN NaN ELSE RoundTo(x, 2)

\* Math.max(0, v)
Max0(v) ==
    LET x == ToNumber(v)
    IN  IF ~IsNum(x) THEN NaN ELSE IF Numer(x) < 0 THEN I(0) ELSE x

\* Number.isInteger: no conversion, only a number with no fraction
IsInteger(v) == IsNum(v) /\ Denom(v) = 1

\* floor of the square root of a natural number
ISqrt(k) == CHOOSE s \in 0..k : s * s <= k /\ (s + 1) * (s + 1) > k

\* acc * b^k by k successive multiplications by b; the k steps are split in
\* halves so that their evaluation nests only log k deep
RECURSIVE PowLoop(_, _, _)
PowLoop(acc, b, k) ==
    IF k = 0 THEN acc
    ELSE IF k = 1 THEN MulNum(acc, b)
    ELSE LET first == PowLoop(acc, b, k \div 2)
         IN  IF IsNum(first) THEN PowLoop(first, b, k - k \div 2) ELSE NaN

IntPow(b, k) == PowLoop(I(1), b, k)

\* Math.pow(b, e) for b > 0 and e a non-negative multiple of 1/2:
\* b^floor(e), times the square root of b when e has a half.  The root is
\* taken of numerator and denominator; the bases drawn with a fractional
\* exponent are squares of rationals, for which that root is exact.
Pow(b, e) ==
    LET x == ToNumber(b)
        y == ToNumber(e)
    IN  IF ~IsNum(x) \/ ~IsNum(y) THEN NaN
        ELSE MulNum(IntPow(x, Numer(y) \div Denom(y)),
                    IF Denom(y) = 1 THEN I(1)
                    ELSE Q(ISqrt(Numer(x)), ISqrt(Denom(x))))

\* the messages are the source's, without the rupee sign some of them carry
NoError == ""

----------------------------------------------------------------------------
(* EMI calculator: src/controllers/emiCalculatorController.js              *)

\* a validateInputs whose tenure check lets a tenure of 0 through (`< 0` for
\* `<= 0`, and no `!tenureMonths`)
EmiValidateInputs_ZeroTenurePasses(loanAmount, interestRate, tenureMonths) ==
    IF Falsy(loanAmount) \/ Le(loanAmount, I(0))
    THEN "Loan amount must be greater than 0"
    ELSE IF Lt(interestRate, I(0)) \/ Gt(interestRate, I(100))
    THEN "Interest rate must be between 0 and 100"
    ELSE IF Lt(tenureMonths, I(0)) \/ ~IsInteger(tenureMonths)
    THEN "Loan tenure must be a positive integer (in months)"
    ELSE NoError

\* validateInputs(loanAmount, interestRate, tenureMonths): the message of the
\* first check that throws, NoError when none does
EmiValidateInputs(loanAmount, interestRate, tenureMonths) ==
    IF Falsy(loanAmount) \/ Le(loanAmount, I(0))
    THEN "Loan amount must be greater than 0"
    ELSE IF Lt(interestRate, I(0)) \/ Gt(interestRate, I(100))
    THEN "Interest rate must be between 0 and 100"
    ELSE IF Falsy(tenureMonths) \/ Le(tenureMonths, I(0)) \/ ~IsInteger(tenureMonths)
    THEN "Loan tenure must be a positive integer (in months)"
    ELSE NoError

\* the unrounded monthlyEMI of calculateEMI
EmiMonthly(loanAmount, interestRate, tenureMonths) ==
    LET monthlyRate == Div(interestRate, I(12 * 100))
    IN  IF StrictEq(monthlyRate, I(0))
        THEN Div(loanAmount, tenureMonths)
        ELSE LET factor == Pow(Add(I(1), monthlyRate), tenureMonths)
             IN  Div(Mul(Mul(loanAmount, monthlyRate), factor), Sub(factor, I(1)))

\* a calculateEMI that derives the totals from the rounded monthlyEMI
EmiResult_RoundedEarly(loanAmount, interestRate, tenureMonths) ==
    LET rounded == Round2(EmiMonthly(loanAmount, interestRate, tenureMonths))
        payable == Mul(rounded, tenureMonths)
    IN  <<loanAmount, interestRate, tenureMonths,
          rounded, Round2(Sub(payable, loanAmount)), Round2(payable)>>

\* the record calculateEMI returns once validateInputs has passed:
\* {loanAmount, interestRate, tenureMonths, monthlyEMI, totalInterest, totalPayable}
EmiResult(loanAmount, interestRate, tenureMonths) ==
    LET unrounded == EmiMonthly(loanAmount, interestRate, tenureMonths)
        payable == Mul(unrounded, tenureMonths)
        interestPaid == Sub(payable, loanAmount)
    IN  <<loanAmount, interestRate, tenureMonths,
          Round2(unrounded), Round2(interestPaid), Round2(payable)>>

monthlyEMI(r) == r[4]
totalInterest(r) == r[5]
totalPayable(r) == r[6]

\* what the loop carries into month m: the balance, a value, and the m - 1
\* entries pushed so far (always so; stating it has both computed before
\* the month's own arithmetic)
Carried(bal, sched, m) == Tag(bal) # "" /\ Len(sched) = m - 1

\* a schedule loop that books the whole EMI as principal
RECURSIVE AmortizationLoop_EmiAsPrincipal(_, _, _, _, _, _)
AmortizationLoop_EmiAsPrincipal(bal, monthlyRate, tenureMonths, emi, m, sched) ==
    IF ~Le(I(m), tenureMonths) \/ ~Carried(bal, sched, m) THEN sched
    ELSE LET interestComponent == Mul(bal, monthlyRate)
             newBalance == Sub(bal, emi)
         IN  AmortizationLoop_EmiAsPrincipal(newBalance, monthlyRate, tenureMonths,
                 emi, m + 1,
                 Append(sched,
                     <<m, Round2(emi), Round2(interestComponent),
                       Max0(Round2(newBalance))>>))

\* a schedule loop that reports the balance as it is, without Math.max(0, .)
RECURSIVE AmortizationLoop_NoClamp(_, _, _, _, _, _)
AmortizationLoop_NoClamp(bal, monthlyRate, tenureMonths, emi, m, sched) ==
    IF ~Le(I(m), tenureMonths) \/ ~Carried(bal, sched, m) THEN sched
    ELSE LET interestComponent == Mul(bal, monthlyRate)
             principalComponent == Sub(emi, interestComponent)
             newBalance == Sub(bal, principalComponent)
         IN  AmortizationLoop_NoClamp(newBalance, monthlyRate, tenureMonths, emi,
                 m + 1,
                 Append(sched,
                     <<m, Round2(principalComponent), Round2(interestComponent),
                       Round2(newBalance)>>))

\* the loop of generateAmortizationSchedule from `m` on; an entry is
\* {month, principal, interest, balance}
RECURSIVE AmortizationLoop(_, _, _, _, _, _)
AmortizationLoop(bal, monthlyRate, tenureMonths, emi, m, sched) ==
    IF ~Le(I(m), tenureMonths) \/ ~Carried(bal, sched, m) THEN sched
    ELSE LET interestComponent == Mul(bal, monthlyRate)
             principalComponent == Sub(emi, interestComponent)
             newBalance == Sub(bal, principalComponent)
         IN  AmortizationLoop(newBalance, monthlyRate, tenureMonths, emi, m + 1,
                 Append(sched,
                     <<m, Round2(principalComponent), Round2(interestComponent),
                       Max0(Round2(newBalance))>>))

generateAmortizationSchedule(loanAmount, interestRate, tenureMonths, emi) ==
    AmortizationLoop(loanAmount, Div(interestRate, I(12 * 100)), tenureMonths,
                     emi, 1, <<>>)

month(e) == e[1]
principal(e) == e[2]
interest(e) == e[3]
balance(e) == e[4]

----------------------------------------------------------------------------
(* Interest calculator: src/controllers/interestCalculatorController.js    *)

\* the interestType of a call that passes none
MissingType == "undefined"

\* validateInputs(principal, interestRate, timePeriod, interestType)
InterestValidateInputs(p, interestRate, timePeriod, interestType) ==
    IF Falsy(p) \/ Le(p, I(0))
    THEN "Principal amount must be greater than 0"
    ELSE IF Lt(interestRate, I(0)) \/ Gt(interestRate, I(100))
    THEN "Interest rate must be between 0 and 100"
    ELSE IF Falsy(timePeriod) \/ Le(timePeriod, I(0)) \/ Gt(timePeriod, I(100))
    THEN "Time period must be between 0.1 and 100 years"
    ELSE IF interestType = MissingType \/ interestType \notin {"simple", "compound"}
    THEN "Interest type must be \"simple\" or \"compound\""
    ELSE NoError

\* simple interest for the whole years of the period alone
calculateSimpleInterest_WholeYears(p, rate, time) ==
    LET earned == Div(Mul(Mul(p, rate), Floor(time)), I(100))
    IN  <<earned, Add(p, earned)>>

\* both return {interest, totalAmount}
calculateSimpleInterest(p, rate, time) ==
    LET earned == Div(Mul(Mul(p, rate), time), I(100))
    IN  <<earned, Add(p, earned)>>

calculateCompoundInterest(p, rate, time) ==
    LET amount == Mul(p, Pow(Add(I(1), Div(rate, I(100))), time))
    IN  <<Sub(amount, p), amount>>

\* the simple-interest loop of generateYearWiseBreakdown from `y` on; an
\* entry is {year, principalAtStart, interestForYear, totalAtEnd}
RECURSIVE SimpleLoop(_, _, _, _, _)
SimpleLoop(p, rate, time, y, breakdown) ==
    IF ~Le(I(y), Ceil(time)) THEN breakdown
    ELSE LET yearlyInterest == Div(Mul(p, rate), I(100))
             isPartialYear == Gt(I(y), time)
             actualYear == IF isPartialYear THEN time ELSE I(y)
             forYear == IF isPartialYear
                        THEN Mul(yearlyInterest, Sub(time, Floor(time)))
                        ELSE yearlyInterest
             atEnd == Add(p, Mul(yearlyInterest, actualYear))
             pushed == Append(breakdown,
                          <<IF isPartialYear THEN time ELSE I(y), p, forYear, atEnd>>)
         IN  IF StrictEq(I(y), Floor(time)) THEN pushed
             ELSE SimpleLoop(p, rate, time, y + 1, pushed)

\* a compound loop that never carries the year's closing total forward
RECURSIVE CompoundLoop_NoCarry(_, _, _, _, _)
CompoundLoop_NoCarry(runningPrincipal, rate, time, y, breakdown) ==
    IF ~Le(I(y), Ceil(time)) THEN breakdown
    ELSE LET forYear == Mul(runningPrincipal, Div(rate, I(100)))
             pushed == Append(breakdown,
                          <<I(y), runningPrincipal, forYear,
                            Add(runningPrincipal, forYear)>>)
         IN  IF StrictEq(I(y), Floor(time)) THEN pushed
             ELSE CompoundLoop_NoCarry(runningPrincipal, rate, time, y + 1, pushed)

\* the compound-interest loop of generateYearWiseBreakdown from `y` on
RECURSIVE CompoundLoop(_, _, _, _, _)
CompoundLoop(runningPrincipal, rate, time, y, breakdown) ==
    IF ~Le(I(y), Ceil(time)) THEN breakdown
    ELSE LET isPartialYear == Gt(I(y), time)
             actualYear == IF isPartialYear THEN Sub(time, Floor(time)) ELSE I(1)
             forYear == Mul(runningPrincipal,
                            Sub(Pow(Add(I(1), Div(rate, I(100))), actualYear), I(1)))
             atEnd == Add(runningPrincipal, forYear)
             pushed == Append(breakdown,
                          <<IF isPartialYear THEN time ELSE I(y),
                            runningPrincipal, forYear, atEnd>>)
         IN  IF StrictEq(I(y), Floor(time)) THEN pushed
             ELSE CompoundLoop(atEnd, rate, time, y + 1, pushed)

generateYearWiseBreakdown(p, rate, time, interestType) ==
    IF interestType = "simple"
    THEN SimpleLoop(p, rate, time, 1, <<>>)
    ELSE CompoundLoop(p, rate, time, 1, <<>>)

\* the record calculateInterest returns, r the {interest, totalAmount} of the
\* interest type and breakdown the unrounded year-wise breakdown:
\* {principal, interestRate, timePeriod, interestType, interestAmount,
\*  totalAmount, growthRate, yearWiseBreakdown}
InterestRecord(p, interestRate, timePeriod, interestType, r, breakdown) ==
    <<p, interestRate, timePeriod, interestType,
      Round2(r[1]), Round2(r[2]), Round2(Mul(Div(r[1], p), I(100))),
      [k \in 1..Len(breakdown) |->
          <<breakdown[k][1], Round2(breakdown[k][2]),
            Round2(breakdown[k][3]), Round2(breakdown[k][4])>>]>>

\* calculateInterest once validateInputs has passed
InterestResult(p, interestRate, timePeriod, interestType) ==
    InterestRecord(p, interestRate, timePeriod, interestType,
        IF interestType = "simple"
        THEN calculateSimpleInterest(p, interestRate, timePeriod)
        ELSE calculateCompoundInterest(p, interestRate, timePeriod),
        generateYearWiseBreakdown(p, interestRate, timePeriod, interestType))

interestAmount(r) == r[5]
totalAmount(r) == r[6]
yearWiseBreakdown(r) == r[8]

year(e) == e[1]
principalAtStart(e) == e[2]
interestForYear(e) == e[3]
totalAtEnd(e) == e[4]

----------------------------------------------------------------------------
(* SIP calculator: src/controllers/sipCalculatorController.js              *)

\* a validateInputs that accepts an expected ROI from 0 on
SipValidateInputs_ZeroAllowed(monthlyInvestment, investmentPeriod, expectedROI) ==
    IF Falsy(monthlyInvestment) \/ Lt(monthlyInvestment, I(500))
    THEN "Monthly investment must be at least 500"
    ELSE IF Falsy(investmentPeriod) \/ Lt(investmentPeriod, I(1))
            \/ Gt(investmentPeriod, I(50))
    THEN "Investment period must be between 1 and 50 years"
    ELSE IF ~IsNum(expectedROI) \/ Lt(expectedROI, I(0)) \/ Gt(expectedROI, I(20))
    THEN "Expected ROI must be between 1% and 20%"
    ELSE NoError

\* a validateInputs that accepts every positive investment period up to 50
SipValidateInputs_AnyPositivePeriod(monthlyInvestment, investmentPeriod, expectedROI) ==
    IF Falsy(monthlyInvestment) \/ Lt(monthlyInvestment, I(500))
    THEN "Monthly investment must be at least 500"
    ELSE IF Falsy(investmentPeriod) \/ Le(investmentPeriod, I(0))
            \/ Gt(investmentPeriod, I(50))
    THEN "Investment period must be between 1 and 50 years"
    ELSE IF Falsy(expectedROI) \/ Lt(expectedROI, I(1)) \/ Gt(expectedROI, I(20))
    THEN "Expected ROI must be between 1% and 20%"
    ELSE NoError

SipValidateInputs(monthlyInvestment, investmentPeriod, expectedROI) ==
    IF Falsy(monthlyInvestment) \/ Lt(monthlyInvestment, I(500))
    THEN "Monthly investment must be at least 500"
    ELSE IF Falsy(investmentPeriod) \/ Lt(investmentPeriod, I(1))
            \/ Gt(investmentPeriod, I(50))
    THEN "Investment period must be between 1 and 50 years"
    ELSE IF Falsy(expectedROI) \/ Lt(expectedROI, I(1)) \/ Gt(expectedROI, I(20))
    THEN "Expected ROI must be between 1% and 20%"
    ELSE NoError

\* calculateFutureValueOfAnnuity of the SIP calculator (payments at the
\* beginning of each period)
SipFutureValueOfAnnuity(monthlyPayment, annualROI, months) ==
    LET monthlyRate == Div(Div(annualROI, I(12)), I(100))
    IN  IF StrictEq(monthlyRate, I(0))
        THEN Mul(monthlyPayment, months)
        ELSE LET factor == Pow(Add(I(1), monthlyRate), months)
             IN  Mul(Mul(monthlyPayment, Div(Sub(factor, I(1)), monthlyRate)),
                     Add(I(1), monthlyRate))

\* the totalValue of one year of calculateYearWiseGrowth, which has the
\* future-value formula written out in its loop
SipValueAt(monthlyInvestment, monthlyRate, months, invested) ==
    IF StrictEq(monthlyRate, I(0))
    THEN invested
    ELSE Mul(Mul(monthlyInvestment,
                 Div(Sub(Pow(Add(I(1), monthlyRate), months), I(1)), monthlyRate)),
             Add(I(1), monthlyRate))

\* an entry of yearWiseGrowth:
\* {year, totalInvestment, estimatedReturns, totalValue}
SipGrowthEntry(y, invested, value) ==
    <<y, Round2(invested), Round2(Sub(value, invested)), Round2(value)>>

\* a loop that takes a year for twelve and a half months
RECURSIVE SipGrowthLoop_LongYear(_, _, _, _, _)
SipGrowthLoop_LongYear(monthlyInvestment, monthlyRate, years, y, growthData) ==
    IF ~Le(I(y), years) THEN growthData
    ELSE SipGrowthLoop_LongYear(monthlyInvestment, monthlyRate, years, y + 1,
             Append(growthData,
                 SipGrowthEntry(y, Mul(monthlyInvestment, Q(y * 25, 2)),
                     SipValueAt(monthlyInvestment, monthlyRate, Q(y * 25, 2),
                                Mul(monthlyInvestment, Q(y * 25, 2))))))

\* the loop of calculateYearWiseGrowth from `y` on
RECURSIVE SipGrowthLoop(_, _, _, _, _)
SipGrowthLoop(monthlyInvestment, monthlyRate, years, y, growthData) ==
    IF ~Le(I(y), years) THEN growthData
    ELSE SipGrowthLoop(monthlyInvestment, monthlyRate, years, y + 1,
             Append(growthData,
                 SipGrowthEntry(y, Mul(monthlyInvestment, I(y * 12)),
                     SipValueAt(monthlyInvestment, monthlyRate, I(y * 12),
                                Mul(monthlyInvestment, I(y * 12))))))

SipYearWiseGrowth(monthlyInvestment, annualROI, years) ==
    SipGrowthLoop(monthlyInvestment, Div(Div(annualROI, I(12)), I(100)), years,
                  1, <<>>)

\* the record calculateSIP returns once validateInputs has passed:
\* {monthlyInvestment, investmentPeriod, expectedROI, totalInvestment,
\*  estimatedReturns, totalValue, returnsPercentage, yearWiseGrowth}
SipResult(monthlyInvestment, investmentPeriod, expectedROI) ==
    LET months == Mul(investmentPeriod, I(12))
        invested == Mul(monthlyInvestment, months)
        value == SipFutureValueOfAnnuity(monthlyInvestment, expectedROI, months)
        returns == Sub(value, invested)
        percentage == IF Gt(invested, I(0))
                      THEN Mul(Div(returns, invested), I(100))
                      ELSE I(0)
    IN  <<monthlyInvestment, investmentPeriod, expectedROI,
          Round2(invested), Round2(returns), Round2(value), Round2(percentage),
          SipYearWiseGrowth(monthlyInvestment, expectedROI, investmentPeriod)>>

totalValue(r) == r[6]
\* yearWiseGrowth, the last field of the SIP and of the corpus record
yearWiseGrowth(r) == r[Len(r)]

----------------------------------------------------------------------------
(* Retirement corpus calculator:                                           *)
(* src/controllers/retirementCorpusCalculatorController.js                 *)

CorpusValidateInputs(currentAge, retirementAge, monthlySavings, expectedROI) ==
    IF Falsy(currentAge) \/ Lt(currentAge, I(18)) \/ Gt(currentAge, I(100))
    THEN "Current age must be between 18 and 100"
    ELSE IF Falsy(retirementAge) \/ Lt(retirementAge, I(40))
            \/ Gt(retirementAge, I(100))
    THEN "Retirement age must be between 40 and 100"
    ELSE IF Le(retirementAge, currentAge)
    THEN "Retirement age must be greater than current age"
    ELSE IF Falsy(monthlySavings) \/ Le(monthlySavings, I(0))
    THEN "Monthly savings must be greater than 0"
    ELSE IF Falsy(expectedROI) \/ Lt(expectedROI, I(1)) \/ Gt(expectedROI, I(20))
    THEN "Expected ROI must be between 1% and 20%"
    ELSE NoError

\* calculateFutureValueOfAnnuity of the corpus calculator (payments at the
\* end of each period)
CorpusFutureValueOfAnnuity(monthlyPayment, annualROI, months) ==
    LET monthlyRate == Div(Div(annualROI, I(12)), I(100))
    IN  IF StrictEq(monthlyRate, I(0))
        THEN Mul(monthlyPayment, months)
        ELSE LET factor == Pow(Add(I(1), monthlyRate), months)
             IN  Mul(monthlyPayment, Div(Sub(factor, I(1)), monthlyRate))

\* the corpus of one year of calculateYearWiseGrowth, which has the
\* future-value formula written out in its loop
CorpusValueAt(monthlySavings, monthlyRate, months) ==
    IF StrictEq(monthlyRate, I(0))
    THEN Mul(monthlySavings, months)
    ELSE Mul(monthlySavings,
             Div(Sub(Pow(Add(I(1), monthlyRate), months), I(1)), monthlyRate))

\* the loop of calculateYearWiseGrowth from `y` on; an entry is
\* {year, age, totalInvested, corpus}
RECURSIVE CorpusGrowthLoop(_, _, _, _, _, _)
CorpusGrowthLoop(monthlySavings, monthlyRate, years, currentAge, y, growthData) ==
    IF ~Le(I(y), years) THEN growthData
    ELSE CorpusGrowthLoop(monthlySavings, monthlyRate, years, currentAge, y + 1,
             Append(growthData,
                 <<y, Add(currentAge, I(y)),
                   Round2(Mul(monthlySavings, I(y * 12))),
                   Round2(CorpusValueAt(monthlySavings, monthlyRate, I(y * 12)))>>))

CorpusYearWiseGrowth(monthlySavings, annualROI, years, currentAge) ==
    CorpusGrowthLoop(monthlySavings, Div(Div(annualROI, I(12)), I(100)), years,
                     currentAge, 1, <<>>)

\* the years of retirement calculateCorpus spreads the corpus over
retirementYears == 20

\* the record calculateCorpus returns once validateInputs has passed:
\* {currentAge, retirementAge, yearsUntilRetirement, monthlySavings,
\*  expectedROI, retirementCorpus, totalSavingsInvested, totalReturnsEarned,
\*  monthlyPensionEstimate, yearWiseGrowth}
CorpusResult(currentAge, retirementAge, monthlySavings, expectedROI) ==
    LET untilRetirement == Sub(retirementAge, currentAge)
        months == Mul(untilRetirement, I(12))
        value == CorpusFutureValueOfAnnuity(monthlySavings, expectedROI, months)
        invested == Mul(monthlySavings, months)
    IN  <<currentAge, retirementAge, untilRetirement, monthlySavings, expectedROI,
          Round2(value), Round2(invested), Round2(Sub(value, invested)),
          Round2(Div(value, I(retirementYears * 12))),
          CorpusYearWiseGrowth(monthlySavings, expectedROI, untilRetirement,
                               currentAge)>>

retirementCorpus(r) == r[6]

----------------------------------------------------------------------------
(* Loan eligibility calculator: src/unnamed/part_004                       *)

\* a validateInputs whose cap on the EMI capacity is 90% of the income
EligibilityValidateInputs_NinetyPercent(monthlyIncome, emiCapacity, interestRate, loanTenure) ==
    IF Falsy(monthlyIncome) \/ Lt(monthlyIncome, I(10000))
    THEN "Monthly income must be at least 10,000"
    ELSE IF Falsy(emiCapacity) \/ Lt(emiCapacity, I(1000))
    THEN "EMI capacity must be at least 1,000"
    ELSE IF Ge(emiCapacity, monthlyIncome)
    THEN "EMI capacity must be less than monthly income"
    ELSE IF Gt(emiCapacity, Mul(monthlyIncome, Q(9, 10)))
    THEN "EMI capacity should not exceed 80% of monthly income"
    ELSE IF Falsy(interestRate) \/ Lt(interestRate, I(1)) \/ Gt(interestRate, I(30))
    THEN "Interest rate must be between 1% and 30%"
    ELSE IF Falsy(loanTenure) \/ Lt(loanTenure, I(1)) \/ Gt(loanTenure, I(30))
    THEN "Loan tenure must be between 1 and 30 years"
    ELSE NoError

EligibilityValidateInputs(monthlyIncome, emiCapacity, interestRate, loanTenure) ==
    IF Falsy(monthlyIncome) \/ Lt(monthlyIncome, I(10000))
    THEN "Monthly income must be at least 10,000"
    ELSE IF Falsy(emiCapacity) \/ Lt(emiCapacity, I(1000))
    THEN "EMI capacity must be at least 1,000"
    ELSE IF Ge(emiCapacity, monthlyIncome)
    THEN "EMI capacity must be less than monthly income"
    ELSE IF Gt(emiCapacity, Mul(monthlyIncome, Q(8, 10)))
    THEN "EMI capacity should not exceed 80% of monthly income"
    ELSE IF Falsy(interestRate) \/ Lt(interestRate, I(1)) \/ Gt(interestRate, I(30))
    THEN "Interest rate must be between 1% and 30%"
    ELSE IF Falsy(loanTenure) \/ Lt(loanTenure, I(1)) \/ Gt(loanTenure, I(30))
    THEN "Loan tenure must be between 1 and 30 years"
    ELSE NoError

\* the reverse formula with the divisor short of its factor
calculateLoanAmountFromEMI_NoFactor(emi, annualROI, months) ==
    LET monthlyRate == Div(Div(annualROI, I(12)), I(100))
    IN  IF StrictEq(monthlyRate, I(0))
        THEN Mul(emi, months)
        ELSE LET factor == Pow(Add(I(1), monthlyRate), months)
             IN  Mul(emi, Div(Sub(factor, I(1)), monthlyRate))

calculateLoanAmountFromEMI(emi, annualROI, months) ==
    LET monthlyRate == Div(Div(annualROI, I(12)), I(100))
    IN  IF StrictEq(monthlyRate, I(0))
        THEN Mul(emi, months)
        ELSE LET factor == Pow(Add(I(1), monthlyRate), months)
             IN  Mul(emi, Div(Sub(factor, I(1)), Mul(monthlyRate, factor)))

\* a record whose payments are the whole monthly income
EligibilityResult_IncomePaid(monthlyIncome, emiCapacity, interestRate, loanTenure) ==
    LET months == Mul(loanTenure, I(12))
        eligible == calculateLoanAmountFromEMI(emiCapacity, interestRate, months)
        interestPayable == Sub(Mul(monthlyIncome, months), eligible)
        amountPayable == Add(eligible, interestPayable)
        percentage == Mul(Div(emiCapacity, monthlyIncome), I(100))
    IN  <<monthlyIncome, emiCapacity, Round2(percentage), interestRate, loanTenure,
          Round2(eligible), emiCapacity, Round2(interestPayable),
          Round2(amountPayable),
          <<Round2(Div(eligible, monthlyIncome)), Round2(percentage)>>>>

\* the record calculateLoanEligibility returns once validateInputs has passed:
\* {monthlyIncome, emiCapacity, emiCapacityPercentage, interestRate,
\*  loanTenure, eligibleLoanAmount, maximumEMI, totalInterestPayable,
\*  totalAmountPayable, eligibilityDetails {incomeMultiplier, debtToIncomeRatio}}
EligibilityResult(monthlyIncome, emiCapacity, interestRate, loanTenure) ==
    LET months == Mul(loanTenure, I(12))
        eligible == calculateLoanAmountFromEMI(emiCapacity, interestRate, months)
        monthlyROI == Div(Div(interestRate, I(12)), I(100))
        interestPayable == IF Gt(monthlyROI, I(0))
                           THEN Sub(Mul(emiCapacity, months), eligible)
                           ELSE I(0)
        amountPayable == Add(eligible, interestPayable)
        percentage == Mul(Div(emiCapacity, monthlyIncome), I(100))
    IN  <<monthlyIncome, emiCapacity, Round2(percentage), interestRate, loanTenure,
          Round2(eligible), emiCapacity, Round2(interestPayable),
          Round2(amountPayable),
          <<Round2(Div(eligible, monthlyIncome)), Round2(percentage)>>>>

emiCapacityPercentage(r) == r[3]
eligibleLoanAmount(r) == r[6]
debtToIncomeRatio(r) == r[10][2]

----------------------------------------------------------------------------
(* FD calculator: src/controllers/fdCalculatorController.js                *)

FdValidateInputs(p, interestRate, tenure) ==
    IF Falsy(p) \/ Lt(p, I(1000))
    THEN "Principal amount must be at least 1,000"
    ELSE IF Falsy(interestRate) \/ Lt(interestRate, I(1)) \/ Gt(interestRate, I(15))
    THEN "Interest rate must be between 1% and 15%"
    ELSE IF Falsy(tenure) \/ Le(tenure, I(0)) \/ Gt(tenure, I(10))
    THEN "Tenure must be between 1 and 10 years"
    ELSE NoError

COMPOUNDING_FREQUENCY == 4

calculateMaturityAmount(p, annualRate, tenureYears, compoundingFreq) ==
    LET rateDecimal == Div(annualRate, I(100))
        factor == Pow(Add(I(1), Div(rateDecimal, compoundingFreq)),
                      Mul(compoundingFreq, tenureYears))
    IN  Mul(p, factor)

\* an effective rate that compounds once a period instead of
\* compoundingFreq times: (1 + r/n)^1 - 1
calculateEffectiveRate_OnePeriod(annualRate, compoundingFreq) ==
    Mul(Sub(Pow(Add(I(1), Div(Div(annualRate, I(100)), compoundingFreq)), I(1)),
            I(1)), I(100))

calculateEffectiveRate(annualRate, compoundingFreq) ==
    LET rateDecimal == Div(annualRate, I(100))
        ear == Sub(Pow(Add(I(1), Div(rateDecimal, compoundingFreq)),
                       compoundingFreq), I(1))
    IN  Mul(ear, I(100))

\* the record calculateFD returns once validateInputs has passed:
\* {principal, interestRate, tenure, compoundingFrequency, maturityAmount,
\*  totalInterestEarned, effectiveRate}
FdResult(p, interestRate, tenure) ==
    LET maturity == calculateMaturityAmount(p, interestRate, tenure,
                                            I(COMPOUNDING_FREQUENCY))
    IN  <<p, interestRate, tenure, I(COMPOUNDING_FREQUENCY),
          Round2(maturity), Round2(Sub(maturity, p)),
          Round2(calculateEffectiveRate(interestRate, I(COMPOUNDING_FREQUENCY)))>>

effectiveRate(r) == r[7]

----------------------------------------------------------------------------
(* GPA calculator: src/controllers/gpaCalculatorController.js              *)
(* A string that is looked into is <<"string", characters>>, an array is    *)
(* <<"array", elements>>, a course is <<courseName, credits, grade>>; the   *)
(* module's grade-point object is the state variable gradePoints.           *)

GRADE_POINTS ==
    ("A+" :> Q(40, 10)) @@ ("A" :> Q(40, 10)) @@ ("A-" :> Q(37, 10)) @@
    ("B+" :> Q(33, 10)) @@ ("B" :> Q(30, 10)) @@ ("B-" :> Q(27, 10)) @@
    ("C+" :> Q(23, 10)) @@ ("C" :> Q(20, 10)) @@ ("C-" :> Q(17, 10)) @@
    ("D+" :> Q(13, 10)) @@ ("D" :> Q(10, 10)) @@ ("F" :> Q(0, 10))

\* the grade of a course that has none, as JavaScript prints it
NoGrade == "undefined"

\* table[key], undefined when key is no property of table
Lookup(table, key) == IF key \in DOMAIN table THEN table[key] ELSE Undefined

\* String.prototype.trim on the characters of a string
RECURSIVE Trim(_)
Trim(c) ==
    IF c = <<>> THEN c
    ELSE IF Head(c) = " " THEN Trim(Tail(c))
    ELSE IF c[Len(c)] = " " THEN Trim(SubSeq(c, 1, Len(c) - 1))
    ELSE c

\* what validateCourses throws for one course, in the order of its checks
CourseError(course, table) ==
    IF Tag(course[1]) # "string" \/ course[1][2] = <<>>
       \/ Len(Trim(course[1][2])) < 2
    THEN "Invalid course name"
    ELSE IF Falsy(course[2]) \/ Lt(course[2], I(1)) \/ Gt(course[2], I(10))
    THEN "Credits must be between 1 and 10"
    ELSE IF course[3] \in {NoGrade, ""} \/ Falsy(Lookup(table, course[3]))
    THEN "Invalid grade: " \o course[3]
    ELSE NoError

\* the forEach of validateCourses from course k on: the first throw ends it
RECURSIVE CoursesError(_, _, _)
CoursesError(list, k, table) ==
    IF k > Len(list) THEN NoError
    ELSE IF CourseError(list[k], table) # NoError THEN CourseError(list[k], table)
    ELSE CoursesError(list, k + 1, table)

validateCourses(courses, table) ==
    IF Tag(courses) # "array" \/ courses[2] = <<>>
    THEN "At least one course is required"
    ELSE CoursesError(courses[2], 1, table)

\* calculateGradePoints: GRADE_POINTS[grade] || 0
calculateGradePoints(grade, table) ==
    IF Falsy(Lookup(table, grade)) THEN I(0) ELSE Lookup(table, grade)

\* the sum of values[k..], as += builds it
RECURSIVE Total(_, _)
Total(values, k) ==
    IF k > Len(values) THEN I(0) ELSE Add(values[k], Total(values, k + 1))

\* calculateGradeDistribution: how many courses have each of the twelve grades
calculateGradeDistribution(list) ==
    [g \in DOMAIN GRADE_POINTS |-> Cardinality({k \in 1..Len(list) : list[k][3] = g})]

\* the record calculateGPA returns once validateCourses has passed:
\* {semester, courses, semesterGPA, cumulativeGPA, totalCredits,
\*  totalQualityPoints, gradeDistribution}, cumulativeGPA being semesterGPA
GpaTotals(semester, list, table, gpa, credits, quality) ==
    <<semester,
      [k \in 1..Len(list) |->
          <<list[k][1], list[k][2], list[k][3],
            calculateGradePoints(list[k][3], table),
            Round2(Mul(calculateGradePoints(list[k][3], table), list[k][2]))>>],
      gpa, gpa, credits, Round2(quality), calculateGradeDistribution(list)>>

\* semesterGPA, from the totals
GpaOf(credits, quality) ==
    IF Gt(credits, I(0)) THEN Round2(Div(quality, credits)) ELSE I(0)

GpaSums(semester, list, table, credits, quality) ==
    GpaTotals(semester, list, table, GpaOf(credits, quality), credits, quality)

GpaResult(semester, courses, table) ==
    GpaSums(semester, courses[2], table,
        Total([k \in 1..Len(courses[2]) |-> courses[2][k][2]], 1),
        Total([k \in 1..Len(courses[2]) |->
                  Mul(calculateGradePoints(courses[2][k][3], table),
                      courses[2][k][2])], 1))

\* a calculateGPA that writes into the module's table: it zeroes the points
\* of grade D
GradePointsAfter_Written(courses, table) == [table EXCEPT !["D"] = I(0)]

\* the grade-point object after a call: calculateGPA and its helpers read
\* GRADE_POINTS and assign none of its keys
GradePointsAfter(courses, table) == table

----------------------------------------------------------------------------
(* Income tax calculator: src/controllers/incomeTaxCalculatorController.js *)
(* A deductions object is <<"object", f>>, f a function of the keys it has. *)

Infinity == <<"Infinity", 0, 1>>

\* Math.min of two numbers
MathMin(a, b) == IF Lt(b, a) THEN b ELSE a

\* v || 0
OrZero(v) == IF Falsy(v) THEN I(0) ELSE v

\* getTaxSlabs: the slabs {min, max, rate} of an age category
getTaxSlabs(age) ==
    IF age = "below-60"
    THEN <<(<<I(0), I(250000), I(0)>>), <<I(250000), I(500000), I(5)>>,
           <<I(500000), I(1000000), I(20)>>, <<I(1000000), Infinity, I(30)>> >>
    ELSE IF age = "60-80"
    THEN <<(<<I(0), I(300000), I(0)>>), <<I(300000), I(500000), I(5)>>,
           <<I(500000), I(1000000), I(20)>>, <<I(1000000), Infinity, I(30)>> >>
    ELSE <<(<<I(0), I(500000), I(0)>>), <<I(500000), I(1000000), I(20)>>,
           <<I(1000000), Infinity, I(30)>> >>

\* a slab that takes the taxable income above its floor whatever its width
SlabIncome_Uncapped(taxableIncome, slab) ==
    Sub(taxableIncome, slab[1])

\* the income a slab takes of the taxable income
SlabIncome(taxableIncome, slab) ==
    MathMin(Sub(taxableIncome, slab[1]),
            IF slab[2] = Infinity THEN taxableIncome ELSE Sub(slab[2], slab[1]))

\* the loop of calculateTaxBySlabs from slab k on; an entry of the breakdown
\* is {slab, income, rate, tax}, the label slab being kept as <<min, max>>
RECURSIVE TaxLoop(_, _, _, _, _)
TaxLoop(taxableIncome, slabs, k, totalTax, taxBreakdown) ==
    IF k > Len(slabs) \/ Le(taxableIncome, slabs[k][1])
    THEN <<totalTax, taxBreakdown>>
    ELSE IF Le(SlabIncome(taxableIncome, slabs[k]), I(0))
    THEN TaxLoop(taxableIncome, slabs, k + 1, totalTax, taxBreakdown)
    ELSE TaxLoop(taxableIncome, slabs, k + 1,
             Add(totalTax,
                 Div(Mul(SlabIncome(taxableIncome, slabs[k]), slabs[k][3]), I(100))),
             Append(taxBreakdown,
                 <<(<<slabs[k][1], slabs[k][2]>>),
                   SlabIncome(taxableIncome, slabs[k]), slabs[k][3],
                   Div(Mul(SlabIncome(taxableIncome, slabs[k]), slabs[k][3]),
                       I(100))>>))

\* returns {totalTax, taxBreakdown}
calculateTaxBySlabs(taxableIncome, slabs) ==
    TaxLoop(taxableIncome, slabs, 1, I(0), <<>>)

\* deductions summed without the caps of sections 80C and 80D
calculateDeductions_Uncapped(deductions) ==
    Add(Add(Add(Add(OrZero(Lookup(deductions[2], "section80C")),
                    OrZero(Lookup(deductions[2], "section80D"))),
                OrZero(Lookup(deductions[2], "hra"))),
            OrZero(Lookup(deductions[2], "section80G"))),
        OrZero(Lookup(deductions[2], "other")))

calculateDeductions(deductions) ==
    Add(Add(Add(Add(MathMin(OrZero(Lookup(deductions[2], "section80C")), I(150000)),
                    MathMin(OrZero(Lookup(deductions[2], "section80D")), I(100000))),
                OrZero(Lookup(deductions[2], "hra"))),
            OrZero(Lookup(deductions[2], "section80G"))),
        OrZero(Lookup(deductions[2], "other")))

deductionKeys == <<"section80C", "section80D", "hra", "section80G", "other">>

\* the forEach over deductionKeys from key k on
RECURSIVE DeductionError(_, _)
DeductionError(deductions, k) ==
    IF k > Len(deductionKeys) THEN NoError
    ELSE IF Lookup(deductions[2], deductionKeys[k]) # Undefined
            /\ Lt(Lookup(deductions[2], deductionKeys[k]), I(0))
    THEN "Deduction " \o deductionKeys[k] \o " cannot be negative"
    ELSE DeductionError(deductions, k + 1)

\* validateInputs(annualIncome, age, deductions)
TaxValidateInputs(annualIncome, age, deductions) ==
    IF Falsy(annualIncome) \/ Lt(annualIncome, I(0))
    THEN "Annual income must be greater than or equal to 0"
    ELSE IF age \in {MissingType, ""} \/ age \notin {"below-60", "60-80", "above-80"}
    THEN "Invalid age category"
    ELSE IF Tag(deductions) # "object"
    THEN "Deductions must be an object"
    ELSE DeductionError(deductions, 1)

\* the record calculateTax returns once validateInputs has passed:
\* {annualIncome, age, deductions, totalDeductions, taxableIncome, taxSlabs,
\*  incomeTax, cess, totalTaxPayable, effectiveTaxRate, afterTaxIncome}
TaxRecord(annualIncome, age, deductions, totalDeductions, taxableIncome, bySlabs) ==
    <<annualIncome, age, deductions, Round2(totalDeductions), Round2(taxableIncome),
      [k \in 1..Len(bySlabs[2]) |->
          <<bySlabs[2][k][1], Round2(bySlabs[2][k][2]), bySlabs[2][k][3],
            Round2(bySlabs[2][k][4])>>],
      Round2(bySlabs[1]), Round2(Div(Mul(bySlabs[1], I(4)), I(100))),
      Round2(Add(bySlabs[1], Div(Mul(bySlabs[1], I(4)), I(100)))),
      Round2(IF Gt(annualIncome, I(0))
             THEN Mul(Div(Add(bySlabs[1], Div(Mul(bySlabs[1], I(4)), I(100))),
                          annualIncome), I(100))
             ELSE I(0)),
      Round2(Sub(annualIncome, Add(bySlabs[1], Div(Mul(bySlabs[1], I(4)), I(100)))))>>

TaxAfter(annualIncome, age, deductions, totalDeductions, taxableIncome) ==
    TaxRecord(annualIncome, age, deductions, totalDeductions, taxableIncome,
              calculateTaxBySlabs(taxableIncome, getTaxSlabs(age)))

TaxResult(annualIncome, age, deductions) ==
    TaxAfter(annualIncome, age, deductions, calculateDeductions(deductions),
             Max0(Sub(annualIncome, calculateDeductions(deductions))))

----------------------------------------------------------------------------
(* The arguments the calculators are called with.  Money amounts are whole  *)
(* or whole-cent; interest rates of the interest calculator are such that   *)
(* 1 + rate/100 is the square of a rational, so that a half-year power is   *)
(* exact; periods are multiples of half a year (a quarter for the FD).      *)

MaxTenureMonths == 3
MaxYears == 3
LongTenureMonths == 24

Halves(from, to) == {Q(k, 2) : k \in (2 * from)..(2 * to)}

LoanAmounts == {Undefined, I(0), I(-100), I(10), I(1000), Q(123456, 100)}
EmiRates == {Undefined, Null, I(-1), I(0), I(12), I(60), I(100), I(101)}
TenureMonths == {Undefined, I(0), I(-1), Q(3, 2)} \cup {I(k) : k \in 1..MaxTenureMonths}

\* a small loan, the one also taken over a long tenure
SmallLoan == I(10)
\* and, free of interest, over more than a hundred months
TenuresOf(loanAmount, interestRate) ==
    IF loanAmount # SmallLoan THEN TenureMonths
    ELSE IF interestRate = I(0) THEN {I(LongTenureMonths), I(101)}
    ELSE {I(LongTenureMonths)}

\* the monthlyEMI a caller hands to generateAmortizationSchedule directly
ScheduleEmis == {Undefined, I(0), I(-50), Q(34002, 100), I(5000)}

\* what calculateLoanAmountFromEMI is called with on its own: an instalment
\* the EMI formula gives for some loan, a rate and a number of months
RoundTripLoans == {I(10), I(1000), Q(123456, 100)}
RoundTripRates == {I(0), Q(17, 2), I(12), I(100)}
RoundTripMonths == {I(k) : k \in 1..MaxTenureMonths} \cup {I(LongTenureMonths)}
FormulaEmis ==
    {EmiMonthly(P, R, N) : P \in RoundTripLoans, R \in RoundTripRates,
                           N \in RoundTripMonths}

\* the course lists of calculateGPA
MaxCourses == 2
Courses ==
    {<<n, I(3), g>> : n \in {<<"string", <<"M", "a", "t", "h">> >>},
                      g \in {"A", "B+", "F", "Z", NoGrade}}
        \cup {<<n, c, "A">> : n \in {<<"string", <<"A", "r", "t">> >>},
                              c \in {Undefined, I(0), I(11), Q(5, 2)}}
        \cup {<<n, I(4), "C-">> : n \in {Undefined, <<"string", <<" ", "X", " ">> >>}}
CourseLists ==
    {Undefined}
        \cup {<<"array", list>> : list \in UNION {[1..n -> Courses] : n \in 0..MaxCourses}}

Principals == {Undefined, I(0), I(-500), I(250), I(1000), I(10000)}
InterestRates == {Undefined, Null, I(-1), I(0), I(21), I(44), I(101)}
\* simple interest takes no power, so it is also asked for at a rate of 5
RatesOf(interestType) ==
    IF interestType = "simple" THEN InterestRates \cup {I(5)} ELSE InterestRates
TimePeriods == {Undefined, I(0), I(-1), I(101)} \cup (Halves(0, MaxYears) \ {I(0)})
InterestTypes == {MissingType, "simple", "compound", "monthly"}

MonthlyInvestments == {Undefined, I(0), I(499), I(500), I(1000)}
InvestmentPeriods == {Undefined, I(0), Q(1, 2), I(51)} \cup Halves(1, MaxYears)
ExpectedROIs == {Undefined, Null, I(0), Q(1, 2), I(1), I(12), I(20), I(21)}

CurrentAges == {Undefined, I(17), I(101)}
                   \cup {Sub(I(60), h) : h \in Halves(0, MaxYears)}
RetirementAges == {Undefined, I(39), I(60), I(101)}
MonthlySavings == {Undefined, I(0), I(-5), I(1000)}

MonthlyIncomes == {Undefined, I(9999), I(10000), I(20000)}
EmiCapacities == {Undefined, I(999), I(1000), I(8000), I(8001), I(10000),
                  I(16000), I(16001), I(20000), I(25000)}
EligibilityRates == {Undefined, Null, I(0), I(1), I(12), I(30), I(31)}
LoanTenures == {Undefined, I(0), Q(1, 2), I(31)} \cup Halves(1, MaxYears)

FdPrincipals == {Undefined, I(0), I(999), I(1000), I(5000)}
FdRates == {Undefined, Null, I(0), I(1), Q(1001, 1000), Q(3, 2), I(8), I(15), I(16)}
FdTenures == {Undefined, I(0), I(-1), I(11)}
                 \cup {Q(k, 4) : k \in 1..(4 * MaxYears)}

----------------------------------------------------------------------------
(* Finance routes: src/routes/finance-tools.js.  A handler computes inline  *)
(* (the controllers are not called); a response is <<status, success,       *)
(* payload>> and responses is what the handler has sent on res, in order.   *)
(* req.body is undefined when nothing was parsed into it, else an object    *)
(* whose absent fields read as undefined.                                   *)

\* `const {first, ...} = req.body` throws a TypeError on an undefined body
DestructureError(body, first) ==
    IF body = Undefined
    THEN "Cannot destructure property '" \o first \o "' of 'req.body' as it is undefined."
    ELSE NoError

\* a handler whose 400 branch lacks the `return`, so that it goes on to
\* respond success
RouteHandler_NoReturn(thrown, invalid, data) ==
    IF thrown # NoError
    THEN <<<<500, FALSE, thrown>>>>
    ELSE IF invalid # NoError
    THEN <<<<400, FALSE, invalid>>, <<200, TRUE, <<>>>>>>
    ELSE <<<<200, TRUE, data>>>>

\* the try/catch of a handler: the catch answers 500 with error.message, a
\* failed check returns a 400, the end of the try answers res.json (200)
RouteHandler(thrown, invalid, data) ==
    IF thrown # NoError
    THEN <<<<500, FALSE, thrown>>>>
    ELSE IF invalid # NoError
    THEN <<<<400, FALSE, invalid>>>>
    ELSE <<<<200, TRUE, data>>>>

\* the checks of POST /emi-calculator/calculate
EmiRouteValidation(loanAmount, interestRate, tenureMonths) ==
    IF Falsy(loanAmount) \/ Le(loanAmount, I(0))
    THEN "Loan amount must be greater than 0"
    ELSE IF Falsy(interestRate) \/ Lt(interestRate, I(0)) \/ Gt(interestRate, I(100))
    THEN "Interest rate must be between 0 and 100"
    ELSE IF Falsy(tenureMonths) \/ Le(tenureMonths, I(0)) \/ ~IsInteger(tenureMonths)
    THEN "Loan tenure must be a positive integer (in months)"
    ELSE NoError

EmiRouteMonthly(loanAmount, monthlyRate, tenureMonths) ==
    IF StrictEq(monthlyRate, I(0))
    THEN Div(loanAmount, tenureMonths)
    ELSE Div(Mul(Mul(loanAmount, monthlyRate),
                 Pow(Add(I(1), monthlyRate), tenureMonths)),
             Sub(Pow(Add(I(1), monthlyRate), tenureMonths), I(1)))

EmiRoutePayable(loanAmount, interestRate, tenureMonths) ==
    Mul(EmiRouteMonthly(loanAmount, Div(interestRate, I(12 * 100)), tenureMonths),
        tenureMonths)

\* mockData of POST /emi-calculator/calculate
EmiRouteData(loanAmount, interestRate, tenureMonths) ==
    <<loanAmount, interestRate, tenureMonths,
      Round2(EmiRouteMonthly(loanAmount, Div(interestRate, I(12 * 100)),
                             tenureMonths)),
      Round2(Sub(EmiRoutePayable(loanAmount, interestRate, tenureMonths),
                 loanAmount)),
      Round2(EmiRoutePayable(loanAmount, interestRate, tenureMonths))>>

\* the checks of POST /fd-calculator/calculate
FdRouteValidation(p, interestRate, tenure) ==
    IF Falsy(p) \/ Lt(p, I(1000))
    THEN "Principal amount must be at least 1,000"
    ELSE IF Falsy(interestRate) \/ Lt(interestRate, I(1)) \/ Gt(interestRate, I(15))
    THEN "Interest rate must be between 1% and 15%"
    ELSE IF Falsy(tenure) \/ Le(tenure, I(0)) \/ Gt(tenure, I(10))
    THEN "Tenure must be between 1 and 10 years"
    ELSE NoError

FdRouteMaturity(p, interestRate, tenure) ==
    Mul(p,
        Pow(Add(I(1), Div(Div(interestRate, I(100)), I(COMPOUNDING_FREQUENCY))),
            Mul(I(COMPOUNDING_FREQUENCY), tenure)))

\* mockData of POST /fd-calculator/calculate
FdRouteData(p, interestRate, tenure) ==
    <<p, interestRate, tenure, I(COMPOUNDING_FREQUENCY),
      Round2(FdRouteMaturity(p, interestRate, tenure)),
      Round2(Sub(FdRouteMaturity(p, interestRate, tenure), p)),
      Round2(Mul(Sub(Pow(Add(I(1), Div(Div(interestRate, I(100)),
                                       I(COMPOUNDING_FREQUENCY))),
                         I(COMPOUNDING_FREQUENCY)), I(1)), I(100)))>>

----------------------------------------------------------------------------
(* The calculators as operations.  A call validates first; a failed         *)
(* validation throws, and nothing is computed or returned.                  *)

NoResult == <<>>

\* one call of calculator f with arguments a: err is what its validateInputs
\* throws (NoError when it passes), res what it returns after a passed one
Call(f, a, err, res) ==
    /\ fn' = f
    /\ args' = a
    /\ schedule' = <<>>
    /\ UNCHANGED <<gradePoints, calls, responses>>
    /\ IF err # NoError
       THEN /\ outcome' = "threw"
            /\ error' = err
            /\ result' = NoResult
            /\ stages' = <<"validate">>
       ELSE /\ outcome' = "returned"
            /\ error' = NoError
            /\ result' = res
            /\ stages' = <<"validate", "compute", "round">>

Init ==
    /\ fn = "none"
    /\ args = <<>>
    /\ outcome = "none"
    /\ error = NoError
    /\ result = NoResult
    /\ stages = <<>>
    /\ schedule = <<>>
    /\ gradePoints = GRADE_POINTS
    /\ calls = <<>>
    /\ responses = <<>>

calculateEMI ==
    \E loanAmount \in LoanAmounts, interestRate \in EmiRates :
      \E tenureMonths \in TenuresOf(loanAmount, interestRate) :
        /\ fn = "none"
        /\ Call("calculateEMI", <<loanAmount, interestRate, tenureMonths>>,
                EmiValidateInputs(loanAmount, interestRate, tenureMonths),
                EmiResult(loanAmount, interestRate, tenureMonths))

\* generateAmortizationSchedule, called with the arguments of the
\* calculateEMI call that has just returned and the monthlyEMI it returned
ScheduleForEMI ==
    /\ fn = "calculateEMI"
    /\ outcome = "returned"
    /\ schedule = <<>>
    /\ schedule' = generateAmortizationSchedule(args[1], args[2], args[3],
                                                monthlyEMI(result))
    /\ UNCHANGED <<fn, args, outcome, error, result, stages, gradePoints, calls,
                 responses>>

\* generateAmortizationSchedule called on its own, with whatever the caller
\* passes: it validates nothing and throws nothing
generateSchedule ==
    \E loanAmount \in LoanAmounts \ {SmallLoan}, interestRate \in EmiRates,
       tenureMonths \in TenureMonths, emi \in ScheduleEmis :
        /\ fn = "none"
        /\ fn' = "generateAmortizationSchedule"
        /\ args' = <<loanAmount, interestRate, tenureMonths, emi>>
        /\ outcome' = "returned"
        /\ error' = NoError
        /\ result' = NoResult
        /\ stages' = <<"compute", "round">>
        /\ schedule' = generateAmortizationSchedule(loanAmount, interestRate,
                                                    tenureMonths, emi)
        /\ UNCHANGED <<gradePoints, calls, responses>>

\* calculateLoanAmountFromEMI called on its own: it validates nothing and
\* returns the loan amount alone
loanAmountFromEMI ==
    \E emi \in FormulaEmis, annualROI \in RoundTripRates, months \in RoundTripMonths :
        /\ fn = "none"
        /\ fn' = "calculateLoanAmountFromEMI"
        /\ args' = <<emi, annualROI, months>>
        /\ outcome' = "returned"
        /\ error' = NoError
        /\ result' = <<calculateLoanAmountFromEMI(emi, annualROI, months)>>
        /\ stages' = <<"compute">>
        /\ schedule' = <<>>
        /\ UNCHANGED <<gradePoints, calls, responses>>

\* calculateGPA(semester, courses)
calculateGPA ==
    \E courses \in CourseLists :
        /\ fn = "none"
        /\ fn' = "calculateGPA"
        /\ args' = <<I(1), courses>>
        /\ schedule' = <<>>
        /\ gradePoints' = GradePointsAfter(courses, gradePoints)
        /\ UNCHANGED <<calls, responses>>
        /\ IF validateCourses(courses, gradePoints) # NoError
           THEN /\ outcome' = "threw"
                /\ error' = validateCourses(courses, gradePoints)
                /\ result' = NoResult
                /\ stages' = <<"validate">>
           ELSE /\ outcome' = "returned"
                /\ error' = NoError
                /\ result' = GpaResult(I(1), courses, gradePoints)
                /\ stages' = <<"validate", "compute", "round">>

\* calculateTax(annualIncome, age, deductions)
calculateTax ==
    \E annualIncome \in {Undefined, I(0), I(-1), I(200000), I(600000), Q(120000050, 100)},
       age \in {MissingType, "below-60", "60-80", "above-80", "teen"},
       deductions \in {Undefined, Null, <<"object", <<>> >>,
                       <<"object", [key \in {"hra"} |-> I(-1)]>>,
                       <<"object", [key \in {"section80C", "section80D"} |-> I(200000)]>>,
                       <<"object", [key \in {"section80C", "hra", "other"} |-> Q(5000050, 100)]>>} :
        /\ fn = "none"
        /\ Call("calculateTax", <<annualIncome, age, deductions>>,
                TaxValidateInputs(annualIncome, age, deductions),
                TaxResult(annualIncome, age, deductions))

\* calculateTaxBySlabs called on its own, on the slabs of an age category
taxBySlabs ==
    \E taxableIncome \in {I(-5), I(0), Q(1, 2), I(250000), I(250001), I(300000),
                           Q(50000050, 100), I(1000000), I(1200000)},
       age \in {"below-60", "60-80", "above-80"} :
        /\ fn = "none"
        /\ fn' = "calculateTaxBySlabs"
        /\ args' = <<taxableIncome, getTaxSlabs(age)>>
        /\ outcome' = "returned"
        /\ error' = NoError
        /\ result' = calculateTaxBySlabs(taxableIncome, getTaxSlabs(age))
        /\ stages' = <<"compute">>
        /\ schedule' = <<>>
        /\ UNCHANGED <<gradePoints, calls, responses>>

calculateInterest ==
    \E p \in Principals, timePeriod \in TimePeriods, interestType \in InterestTypes :
      \E interestRate \in RatesOf(interestType) :
        /\ fn = "none"
        /\ Call("calculateInterest", <<p, interestRate, timePeriod, interestType>>,
                InterestValidateInputs(p, interestRate, timePeriod, interestType),
                InterestResult(p, interestRate, timePeriod, interestType))

calculateSIP ==
    \E monthlyInvestment \in MonthlyInvestments,
       investmentPeriod \in InvestmentPeriods, expectedROI \in ExpectedROIs :
        /\ fn = "none"
        /\ Call("calculateSIP", <<monthlyInvestment, investmentPeriod, expectedROI>>,
                SipValidateInputs(monthlyInvestment, investmentPeriod, expectedROI),
                SipResult(monthlyInvestment, investmentPeriod, expectedROI))

calculateCorpus ==
    \E currentAge \in CurrentAges, retirementAge \in RetirementAges,
       monthlySavings \in MonthlySavings, expectedROI \in ExpectedROIs :
        /\ fn = "none"
        /\ Call("calculateCorpus",
                <<currentAge, retirementAge, monthlySavings, expectedROI>>,
                CorpusValidateInputs(currentAge, retirementAge, monthlySavings,
                                     expectedROI),
                CorpusResult(currentAge, retirementAge, monthlySavings, expectedROI))

calculateLoanEligibility ==
    \E monthlyIncome \in MonthlyIncomes, emiCapacity \in EmiCapacities,
       interestRate \in EligibilityRates, loanTenure \in LoanTenures :
        /\ fn = "none"
        /\ Call("calculateLoanEligibility",
                <<monthlyIncome, emiCapacity, interestRate, loanTenure>>,
                EligibilityValidateInputs(monthlyIncome, emiCapacity, interestRate,
                                          loanTenure),
                EligibilityResult(monthlyIncome, emiCapacity, interestRate,
                                  loanTenure))

calculateFD ==
    \E p \in FdPrincipals, interestRate \in FdRates, tenure \in FdTenures :
        /\ fn = "none"
        /\ Call("calculateFD", <<p, interestRate, tenure>>,
                FdValidateInputs(p, interestRate, tenure),
                FdResult(p, interestRate, tenure))

\* one request to a route: the handler runs to its end and the responses it
\* sent are kept
Request(route, body, sent) ==
    /\ fn = "none"
    /\ fn' = route
    /\ args' = <<body>>
    /\ outcome' = "responded"
    /\ responses' = sent
    /\ UNCHANGED <<error, result, stages, schedule, gradePoints, calls>>

emiRoute ==
    \E body \in {Undefined} \cup ((LoanAmounts \ {SmallLoan}) \X EmiRates \X TenureMonths) :
        Request("POST /emi-calculator/calculate", body,
                RouteHandler(DestructureError(body, "loanAmount"),
                             EmiRouteValidation(body[1], body[2], body[3]),
                             EmiRouteData(body[1], body[2], body[3])))

fdRoute ==
    \E body \in {Undefined} \cup (FdPrincipals \X FdRates \X FdTenures) :
        Request("POST /fd-calculator/calculate", body,
                RouteHandler(DestructureError(body, "principal"),
                             FdRouteValidation(body[1], body[2], body[3]),
                             FdRouteData(body[1], body[2], body[3])))

\* the caller is done with the outcome of a call; the calculators keep
\* nothing of it
Discard ==
    /\ fn # "none"
    /\ fn' = "none"
    /\ args' = <<>>
    /\ outcome' = "none"
    /\ error' = NoError
    /\ result' = NoResult
    /\ stages' = <<>>
    /\ schedule' = <<>>
    /\ responses' = <<>>
    /\ UNCHANGED <<gradePoints, calls>>

Next ==
    \/ calculateEMI
    \/ ScheduleForEMI
    \/ generateSchedule
    \/ loanAmountFromEMI
    \/ calculateGPA
    \/ calculateTax
    \/ taxBySlabs
    \/ calculateInterest
    \/ calculateSIP
    \/ calculateCorpus
    \/ calculateLoanEligibility
    \/ calculateFD
    \/ emiRoute
    \/ fdRoute
    \/ Discard

Spec == Init /\ [][Next]_vars

----------------------------------------------------------------------------
(* Concurrent invocations.  calls holds the invocations in flight, each      *)
(* <<f, passed, a, pc, err, res>>: the calculator, the arguments as the      *)
(* caller passed them, the argument objects as they are now, the position    *)
(* of the call, and what it threw or returned; <<>> is a free slot.  The     *)
(* steps of different invocations interleave freely; all of them read the    *)
(* one module-level object, gradePoints.                                      *)

MaxCalls == 2

\* validateInputs / validateCourses of calculator f on arguments a
ValidationOf(f, a, table) ==
    CASE f = "calculateGPA" -> validateCourses(a[2], table)
      [] f = "calculateTax" -> TaxValidateInputs(a[1], a[2], a[3])
      [] OTHER -> EmiValidateInputs(a[1], a[2], a[3])

\* what calculator f returns on arguments a after a passed validation
ResultOf(f, a, table) ==
    CASE f = "calculateGPA" -> GpaResult(a[1], a[2], table)
      [] f = "calculateTax" -> TaxResult(a[1], a[2], a[3])
      [] OTHER -> EmiResult(a[1], a[2], a[3])

\* the argument objects after a step of f: the calculators assign no
\* property of courses, of a course or of deductions (courses.map and the
\* slab arrays build new objects)
ArgsAfter(f, a) == a

ConcurrentInit ==
    /\ fn = "none"
    /\ args = <<>>
    /\ outcome = "none"
    /\ error = NoError
    /\ result = NoResult
    /\ stages = <<>>
    /\ schedule = <<>>
    /\ gradePoints = GRADE_POINTS
    /\ calls = [i \in 1..MaxCalls |-> <<>>]
    /\ responses = <<>>

Invoke ==
    \E i \in 1..MaxCalls,
       inv \in {<<"calculateGPA", <<I(1), courses>> >> :
                   courses \in {Undefined,
                                <<"array", << <<<<"string", <<"M", "a", "t", "h">> >>, I(3), "A">> >> >>,
                                <<"array", << <<<<"string", <<"M", "a", "t", "h">> >>, I(3), "D">>,
                                              <<<<"string", <<"A", "r", "t">> >>, I(4), "B+">> >> >>,
                                <<"array", << <<<<"string", <<"M", "a", "t", "h">> >>, I(3), "F">> >> >>}}
              \cup {<<"calculateTax", <<annualIncome, "60-80", <<"object", [key \in {"hra"} |-> I(50000)]>> >> >> :
                       annualIncome \in {I(0), I(600000)}}
              \cup {<<"calculateEMI", <<I(1000), interestRate, I(2)>> >> :
                       interestRate \in {Undefined, I(0), I(12), I(101)}} :
        /\ calls[i] = <<>>
        /\ calls' = [calls EXCEPT ![i] = <<inv[1], inv[2], inv[2], "validate",
                                           NoError, NoResult>>]
        /\ UNCHANGED <<fn, args, outcome, error, result, stages, schedule,
                       gradePoints, responses>>

Validate ==
    \E i \in 1..MaxCalls :
        /\ calls[i] # <<>>
        /\ calls[i][4] = "validate"
        /\ calls' = [calls EXCEPT ![i] =
                       <<calls[i][1], calls[i][2], ArgsAfter(calls[i][1], calls[i][3]),
                         IF ValidationOf(calls[i][1], calls[i][3], gradePoints) # NoError
                         THEN "threw" ELSE "compute",
                         ValidationOf(calls[i][1], calls[i][3], gradePoints),
                         NoResult>>]
        /\ UNCHANGED <<fn, args, outcome, error, result, stages, schedule,
                       gradePoints, responses>>

Compute ==
    \E i \in 1..MaxCalls :
        /\ calls[i] # <<>>
        /\ calls[i][4] = "compute"
        /\ calls' = [calls EXCEPT ![i] =
                       <<calls[i][1], calls[i][2], ArgsAfter(calls[i][1], calls[i][3]),
                         "returned", NoError,
                         ResultOf(calls[i][1], calls[i][3], gradePoints)>>]
        /\ gradePoints' = IF calls[i][1] = "calculateGPA"
                          THEN GradePointsAfter(calls[i][3][2], gradePoints)
                          ELSE gradePoints
        /\ UNCHANGED <<fn, args, outcome, error, result, stages, schedule,
                       responses>>

\* the caller has taken the outcome of a finished invocation
Settle ==
    \E i \in 1..MaxCalls :
        /\ calls[i] # <<>>
        /\ calls[i][4] \in {"threw", "returned"}
        /\ calls' = [calls EXCEPT ![i] = <<>>]
        /\ UNCHANGED <<fn, args, outcome, error, result, stages, schedule,
                       gradePoints, responses>>

ConcurrentNext ==
    \/ Invoke
    \/ Validate
    \/ Compute
    \/ Settle

ConcurrentSpec == ConcurrentInit /\ [][ConcurrentNext]_vars

----------------------------------------------------------------------------
(* Properties.  The domains below are those of the specification's input    *)
(* validator section, stated independently of the validateInputs functions. *)

Missing(v) == Tag(v) \in {"undefined", "null"}
Between(v, lo, hi) == IsNum(v) /\ Le(lo, v) /\ Le(v, hi)
Positive(v) == IsNum(v) /\ Gt(v, I(0))
WholeCents(v) == IsNum(v) /\ 100 % Denom(v) = 0
\* |a - b| <= tol, by the sign of tol - (a - b) and tol - (b - a)
NotNegative(v) == IsNum(v) /\ Numer(v) >= 0
Within(a, b, tol) == NotNegative(Sub(tol, Sub(a, b))) /\ NotNegative(Sub(tol, Sub(b, a)))

TenureMessage == "Loan tenure must be a positive integer (in months)"

\* C1: a calculateEMI call with a valid loanAmount and interestRate whose
\* tenureMonths is 0, missing, negative or not an integer fails with 'Loan
\* tenure must be a positive integer (in months)'; it fails in validation,
\* before the EMI arithmetic, and returns no result record.
C1_BadTenureRejected ==
    (/\ fn = "calculateEMI"
     /\ Positive(args[1])
     /\ Between(args[2], I(0), I(100))
     /\ \/ Missing(args[3])
        \/ IsNum(args[3]) /\ (Le(args[3], I(0)) \/ ~IsInteger(args[3])))
    => /\ outcome = "threw"
       /\ error = TenureMessage
       /\ result = NoResult
       /\ stages = <<"validate">>

\* a calculateEMI call with tenureMonths = 0 has thrown the tenure error
C1_Witness ==
    /\ fn = "calculateEMI"
    /\ args = <<I(1000), I(12), I(0)>>
    /\ outcome = "threw"
    /\ error = TenureMessage

\* whether the arguments of the current call are all present and in the
\* domain of the calculator called
ArgsInDomain ==
    CASE fn = "calculateEMI" ->
            /\ Positive(args[1])
            /\ Between(args[2], I(0), I(100))
            /\ Positive(args[3]) /\ IsInteger(args[3])
      [] fn = "calculateInterest" ->
            /\ Positive(args[1])
            /\ Between(args[2], I(0), I(100))
            /\ Positive(args[3]) /\ Le(args[3], I(100))
            /\ args[4] \in {"simple", "compound"}
      [] fn = "calculateFD" ->
            /\ Between(args[1], I(1000), args[1])
            /\ Between(args[2], I(1), I(15))
            /\ Positive(args[3]) /\ Le(args[3], I(10))
      [] fn = "calculateSIP" ->
            /\ Between(args[1], I(500), args[1])
            /\ Between(args[2], I(1), I(50))
            /\ Between(args[3], I(1), I(20))
      [] fn = "calculateCorpus" ->
            /\ Between(args[1], I(18), I(100))
            /\ Between(args[2], I(40), I(100))
            /\ Gt(args[2], args[1])
            /\ Positive(args[3])
            /\ Between(args[4], I(1), I(20))
      [] fn = "calculateLoanEligibility" ->
            /\ Between(args[1], I(10000), args[1])
            /\ Between(args[2], I(1000), args[2])
            /\ Lt(args[2], args[1])
            /\ Le(Mul(args[2], I(100)), Mul(args[1], I(80)))
            /\ Between(args[3], I(1), I(30))
            /\ Between(args[4], I(1), I(30))
      [] OTHER -> TRUE

\* C2: for each of the six calculators, a call with a missing (undefined or
\* null) or out-of-domain argument ends in a validation error thrown before
\* any computation, and returns no result record; a missing interestRate of
\* calculateEMI and calculateInterest included.
C2_InvalidArgumentsThrow ==
    (fn # "none" /\ ~ArgsInDomain)
    => /\ outcome = "threw"
       /\ result = NoResult
       /\ stages = <<"validate">>

\* C3: calculateLoanEligibility returns a result only if emiCapacity is below
\* monthlyIncome and at most 80% of it; an input violating either bound is
\* rejected with a validation error and no result, so that every returned
\* emiCapacityPercentage and debtToIncomeRatio is at most 80.
C3_DebtToIncomeCap ==
    fn = "calculateLoanEligibility"
    => /\ outcome = "returned"
          => /\ Lt(args[2], args[1])
             /\ Le(Mul(args[2], I(100)), Mul(args[1], I(80)))
             /\ Le(emiCapacityPercentage(result), I(80))
             /\ Le(debtToIncomeRatio(result), I(80))
       /\ (/\ IsNum(args[1]) /\ IsNum(args[2])
           /\ \/ Ge(args[2], args[1])
              \/ Gt(Mul(args[2], I(100)), Mul(args[1], I(80))))
          => /\ outcome = "threw"
             /\ error # NoError
             /\ result = NoResult

\* a loan eligibility result for an EMI capacity of exactly 80% of the income
C3_Witness ==
    /\ fn = "calculateLoanEligibility"
    /\ outcome = "returned"
    /\ args[1] = I(20000)
    /\ args[2] = I(16000)
    /\ emiCapacityPercentage(result) = I(80)

\* a calculateInterest call that returned for a numeric interest rate
InterestReturned ==
    fn = "calculateInterest" /\ outcome = "returned" /\ IsNum(args[2])

\* C4: for every accepted time period T and both interest types the
\* yearWiseBreakdown has exactly ceil(T) entries, contiguous and in order:
\* entry k covers year k, up to the entry covering year ceil(T).
C4_CeilEntries ==
    InterestReturned
    => LET bd == yearWiseBreakdown(result)
       IN  /\ Len(bd) = Numer(Ceil(args[3]))
           /\ \A k \in 1..Len(bd) :
                  Gt(year(bd[k]), I(k - 1)) /\ Le(year(bd[k]), I(k))

Chained(bd) ==
    \A k \in 1..(Len(bd) - 1) : totalAtEnd(bd[k]) = principalAtStart(bd[k + 1])

C6_LastEntryIsTotal ==
    InterestReturned
    => LET bd == yearWiseBreakdown(result)
       IN  /\ Len(bd) >= 1
           /\ Within(totalAtEnd(bd[Len(bd)]), totalAmount(result), Q(1, 100))

\* C7: for every non-integer T the breakdown holds, after the full-year
\* entries of years 1..floor(T), one more entry whose year is T and whose
\* interest is prorated: yearlyInterest x (T - floor(T)) for simple interest,
\* runningPrincipal x ((1 + R/100)^(T - floor(T)) - 1) for compound interest.
C7_PartialYearEntry ==
    (InterestReturned /\ ~IsInteger(args[3]))
    => LET bd == yearWiseBreakdown(result)
           whole == Floor(args[3])
           part == Sub(args[3], whole)
           growth == Add(I(1), Div(args[2], I(100)))
           prorated ==
               IF args[4] = "simple"
               THEN Mul(Div(Mul(args[1], args[2]), I(100)), part)
               ELSE Mul(Mul(args[1], Pow(growth, whole)),
                        Sub(Pow(growth, part), I(1)))
       IN  /\ Len(bd) = Numer(whole) + 1
           /\ \A k \in 1..Numer(whole) : year(bd[k]) = I(k)
           /\ year(bd[Len(bd)]) = args[3]
           /\ interestForYear(bd[Len(bd)]) = Round2(prorated)

\* a call of calculator f with rate = 0 at argument position i
ZeroRateCall(f, i) == fn = f /\ StrictEq(args[i], I(0))

\* C8 (as stated): every annuity-based calculator called with rate = 0 and
\* otherwise valid inputs succeeds and returns the multiplicative value:
\* monthlyEMI = P/N for calculateEMI, totalValue = M x N months for
\* calculateSIP, retirementCorpus = M x N months for calculateCorpus and
\* eligibleLoanAmount = M x N months for calculateLoanEligibility.
C8_AsStated ==
    /\ (ZeroRateCall("calculateEMI", 2) /\ Positive(args[1])
            /\ Positive(args[3]) /\ IsInteger(args[3]))
       => /\ outcome = "returned"
          /\ monthlyEMI(result) = Round2(Div(args[1], args[3]))
    /\ (ZeroRateCall("calculateSIP", 3) /\ Between(args[1], I(500), args[1])
            /\ Between(args[2], I(1), I(50)))
       => /\ outcome = "returned"
          /\ totalValue(result) = Round2(Mul(args[1], Mul(args[2], I(12))))
    /\ (ZeroRateCall("calculateCorpus", 4) /\ Between(args[1], I(18), I(100))
            /\ Between(args[2], I(40), I(100)) /\ Gt(args[2], args[1])
            /\ Positive(args[3]))
       => /\ outcome = "returned"
          /\ retirementCorpus(result)
                 = Round2(Mul(args[3], Mul(Sub(args[2], args[1]), I(12))))
    /\ (ZeroRateCall("calculateLoanEligibility", 3)
            /\ Between(args[1], I(10000), args[1])
            /\ Between(args[2], I(1000), args[2])
            /\ Le(Mul(args[2], I(100)), Mul(args[1], I(80)))
            /\ Between(args[4], I(1), I(30)))
       => /\ outcome = "returned"
          /\ eligibleLoanAmount(result)
                 = Round2(Mul(args[2], Mul(args[4], I(12))))

\* C8 (amended): calculateEMI called with rate = 0 and otherwise valid inputs
\* returns monthlyEMI = P/N rounded to cents.  calculateSIP, calculateCorpus
\* and calculateLoanEligibility reject rate = 0 with their rate validation
\* error and return nothing; only their annuity helpers, given rate 0, yield
\* the multiplicative value M x N months.
C8_ZeroRate ==
    /\ (ZeroRateCall("calculateEMI", 2) /\ Positive(args[1])
            /\ Positive(args[3]) /\ IsInteger(args[3]))
       => /\ outcome = "returned"
          /\ monthlyEMI(result) = Round2(Div(args[1], args[3]))
    /\ (ZeroRateCall("calculateSIP", 3) /\ Between(args[1], I(500), args[1])
            /\ Between(args[2], I(1), I(50)))
       => /\ outcome = "threw"
          /\ error = "Expected ROI must be between 1% and 20%"
          /\ result = NoResult
          /\ SipFutureValueOfAnnuity(args[1], args[3], Mul(args[2], I(12)))
                 = Mul(args[1], Mul(args[2], I(12)))
    /\ (ZeroRateCall("calculateCorpus", 4) /\ Between(args[1], I(18), I(100))
            /\ Between(args[2], I(40), I(100)) /\ Gt(args[2], args[1])
            /\ Positive(args[3]))
       => /\ outcome = "threw"
          /\ error = "Expected ROI must be between 1% and 20%"
          /\ result = NoResult
          /\ CorpusFutureValueOfAnnuity(args[3], args[4],
                                        Mul(Sub(args[2], args[1]), I(12)))
                 = Mul(args[3], Mul(Sub(args[2], args[1]), I(12)))
    /\ (ZeroRateCall("calculateLoanEligibility", 3)
            /\ Between(args[1], I(10000), args[1])
            /\ Between(args[2], I(1000), args[2])
            /\ Le(Mul(args[2], I(100)), Mul(args[1], I(80)))
            /\ Between(args[4], I(1), I(30)))
       => /\ outcome = "threw"
          /\ error = "Interest rate must be between 1% and 30%"
          /\ result = NoResult
          /\ calculateLoanAmountFromEMI(args[2], args[3], Mul(args[4], I(12)))
                 = Mul(args[2], Mul(args[4], I(12)))

\* calculateSIP called with 1000 a month, 2 years and rate 0 has thrown
C8_Witness ==
    /\ fn = "calculateSIP"
    /\ args = <<I(1000), I(2), I(0)>>
    /\ outcome = "threw"

\* acc x base^n by n multiplications by base, one after the other (the n
\* steps taken half by half)
RECURSIVE CompoundedFrom(_, _, _)
CompoundedFrom(acc, base, n) ==
    IF n = 0 THEN acc
    ELSE IF n = 1 THEN Mul(acc, base)
    ELSE LET half == CompoundedFrom(acc, base, n \div 2)
         IN  IF IsNum(half) THEN CompoundedFrom(half, base, n - n \div 2) ELSE NaN

\* (1 + r)^n by repeated multiplication
Compounded(base, n) == CompoundedFrom(I(1), base, n)

\* the EMI of the formula, before rounding
FormulaEmi(P, R, N) ==
    LET r == Div(R, I(1200))
        f == Compounded(Add(I(1), r), Numer(N))
    IN  IF Numer(r) = 0 THEN Div(P, N)
        ELSE Div(Mul(Mul(P, r), f), Sub(f, I(1)))

\* a calculateEMI call that returned for a numeric interest rate
EmiReturned == fn = "calculateEMI" /\ outcome = "returned" /\ IsNum(args[2])

\* C9: for every valid (P, R, N) calculateEMI returns monthlyEMI =
\* round2(P r (1+r)^N / ((1+r)^N - 1)) with r = R/1200 (P/N when r = 0),
\* totalPayable = round2(unrounded EMI x N) and totalInterest =
\* round2(unrounded EMI x N - P); rounding happens at the final step only, so
\* that for a loanAmount in whole cents totalInterest + loanAmount equals
\* totalPayable exactly.
C9_EmiFormula ==
    EmiReturned
    => LET unrounded == FormulaEmi(args[1], args[2], args[3])
       IN  /\ monthlyEMI(result) = Round2(unrounded)
           /\ totalPayable(result) = Round2(Mul(unrounded, args[3]))
           /\ totalInterest(result)
                  = Round2(Sub(Mul(unrounded, args[3]), args[1]))
           /\ WholeCents(args[1])
              => Add(totalInterest(result), args[1]) = totalPayable(result)

\* calculateEMI(1000, 12, 3) has returned 1020.07 as totalPayable, which is
\* not three times the returned monthlyEMI of 340.02
C9_Witness ==
    /\ EmiReturned
    /\ args = <<I(1000), I(12), I(3)>>
    /\ monthlyEMI(result) = Q(34002, 100)
    /\ totalPayable(result) = Q(102007, 100)

\* the sum of the numbers values[lo], ..., values[hi]
RECURSIVE SumOver(_, _, _)
SumOver(values, lo, hi) ==
    IF lo > hi THEN I(0)
    ELSE IF lo = hi THEN values[lo]
    ELSE Add(SumOver(values, lo, (lo + hi) \div 2),
             SumOver(values, (lo + hi) \div 2 + 1, hi))

\* principal + interest over all entries of a schedule
SumOfComponents(sched) ==
    SumOver([k \in 1..Len(sched) |-> Add(principal(sched[k]), interest(sched[k]))],
            1, Len(sched))

\* C10: for all valid (P, R, N), the schedule generateAmortizationSchedule
\* produces for the monthlyEMI calculateEMI returned has N entries whose
\* principal + interest sum to calculateEMI's totalPayable within 2N x 0.01.
C10_ScheduleSumsToTotalPayable ==
    (EmiReturned /\ schedule # <<>>)
    => /\ Len(schedule) = Numer(args[3])
       /\ Within(SumOfComponents(schedule), totalPayable(result),
                 Q(2 * Numer(args[3]), 100))

\* a schedule of three entries for a loan at a positive rate
C10_Witness ==
    /\ EmiReturned
    /\ Gt(args[2], I(0))
    /\ Len(schedule) = 3

\* the schedule of the monthlyEMI calculateEMI returned for valid (P, R, N)
ScheduleOfEmi == EmiReturned /\ schedule # <<>>

\* the sum of the principal components of a schedule
SumOfPrincipal(sched) ==
    SumOver([k \in 1..Len(sched) |-> principal(sched[k])], 1, Len(sched))

\* C11: for all valid (P, R, N), the principal components of the schedule
\* generateAmortizationSchedule produces for the monthlyEMI calculateEMI
\* returned sum to the loan amount P within N x 0.01.
C11_PrincipalSumsToLoan ==
    ScheduleOfEmi
    => Within(SumOfPrincipal(schedule), args[1], Q(Numer(args[3]), 100))

\* C12: for all valid (P, R, N), the schedule generateAmortizationSchedule
\* produces for the rounded monthlyEMI calculateEMI returned ends with a
\* balance of exactly 0 in its final month.
C12_FinalBalanceZero ==
    ScheduleOfEmi => balance(schedule[Len(schedule)]) = I(0)

\* a schedule has been generated: by a call of its own, or for the
\* calculateEMI call that returned
ScheduleRun ==
    \/ fn = "generateAmortizationSchedule"
    \/ fn = "calculateEMI" /\ outcome = "returned" /\ schedule # <<>>

\* the monthlyEMI the schedule was generated with
ScheduleEmi ==
    IF fn = "generateAmortizationSchedule" THEN args[4] ELSE monthlyEMI(result)

\* months 1, 2, ... in increasing order
MonthsInOrder(sched) == \A k \in 1..Len(sched) : month(sched[k]) = k

\* C13 (as stated): generateAmortizationSchedule returns exactly N entries
\* with month = 1..N in increasing order, and in every entry the reported
\* balance is >= 0, for any loanAmount, rate, tenure and monthlyEMI passed.
C13_AsStated ==
    ScheduleRun
    => /\ I(Len(schedule)) = args[3]
       /\ MonthsInOrder(schedule)
       /\ \A k \in 1..Len(schedule) : Ge(balance(schedule[k]), I(0))

\* C13 (amended): generateAmortizationSchedule returns floor(N) entries for
\* a tenure N >= 1 and none for any other tenure (a missing one included),
\* with month = 1, 2, ... in increasing order.  When loanAmount, rate and
\* monthlyEMI are numbers the balance of every entry is >= 0 (the clamp
\* applies to every month); when one of them is missing (undefined or NaN)
\* the balance of every entry is NaN, which is not >= 0.
C13_ScheduleShape ==
    ScheduleRun
    => /\ Len(schedule) = IF IsNum(args[3]) /\ Ge(args[3], I(1))
                          THEN Numer(Floor(args[3])) ELSE 0
       /\ MonthsInOrder(schedule)
       /\ IF /\ IsNum(ToNumber(args[1])) /\ IsNum(ToNumber(args[2]))
             /\ IsNum(ToNumber(ScheduleEmi))
          THEN \A k \in 1..Len(schedule) : Ge(balance(schedule[k]), I(0))
          ELSE \A k \in 1..Len(schedule) : balance(schedule[k]) = NaN

\* a schedule generated with a monthlyEMI far above the loan: the balance
\* is clamped to 0 from the first of its three months on
C13_Witness ==
    /\ fn = "generateAmortizationSchedule"
    /\ args = <<I(1000), I(12), I(3), I(5000)>>
    /\ Len(schedule) = 3
    /\ \A k \in 1..3 : balance(schedule[k]) = I(0)

\* a calculateFD call that returned
FdReturned == fn = "calculateFD" /\ outcome = "returned"

\* C14 (as stated): for every rate R > 0 the FD calculator accepts, the
\* effective annual rate of quarterly compounding, ((1 + R/400)^4 - 1) x 100,
\* is >= R, both before rounding (calculateEffectiveRate) and in the
\* 2-decimal effectiveRate calculateFD returns.
C14_AsStated ==
    FdReturned
    => /\ Ge(calculateEffectiveRate(args[2], I(COMPOUNDING_FREQUENCY)), args[2])
       /\ Ge(effectiveRate(result), args[2])

\* C14 (amended): for every accepted rate R the unrounded effective rate of
\* calculateEffectiveRate is >= R.  The effectiveRate calculateFD returns
\* is that value rounded to 2 decimals: it is >= R rounded to 2 decimals,
\* hence >= R for a rate of at most 2 decimals, and it may lie below a rate
\* with more decimals (1.00 for R = 1.001).
C14_EffectiveRate ==
    FdReturned
    => /\ Ge(calculateEffectiveRate(args[2], I(COMPOUNDING_FREQUENCY)), args[2])
       /\ effectiveRate(result)
              = Round2(calculateEffectiveRate(args[2], I(COMPOUNDING_FREQUENCY)))
       /\ Ge(effectiveRate(result), Round2(args[2]))
       /\ WholeCents(args[2]) => Ge(effectiveRate(result), args[2])

\* calculateFD has returned an effectiveRate of 1.00 for the rate 1.001
C14_Witness ==
    /\ FdReturned
    /\ args[2] = Q(1001, 1000)
    /\ effectiveRate(result) = I(1)


----------------------------------------------------------------------------
\* a call of calculateLoanAmountFromEMI on its own
LoanFromEmiRun == fn = "calculateLoanAmountFromEMI" /\ outcome = "returned"

\* the tolerance of the round trip: a thousandth of the loan, which the
\* scaled arithmetic stays well within
RoundTripTolerance(P) == Div(P, I(1000))

\* C15: for a principal P, an annual rate R and N months, the unrounded EMI
\* of the EMI formula for (P, R, N), handed with the same R and N to
\* calculateLoanAmountFromEMI, gives P back within the tolerance of the
\* arithmetic, the R = 0 branch included.
C15_RoundTrip ==
    LoanFromEmiRun =>
        \A P \in RoundTripLoans :
            args[1] = EmiMonthly(P, args[2], args[3]) =>
                Within(result[1], P, RoundTripTolerance(P))

C15_Witness ==
    /\ LoanFromEmiRun
    /\ args = <<EmiMonthly(Q(123456, 100), I(12), I(MaxTenureMonths)), I(12),
                I(MaxTenureMonths)>>
    /\ Within(result[1], Q(123456, 100), RoundTripTolerance(Q(123456, 100)))


----------------------------------------------------------------------------
SipReturned == fn = "calculateSIP" /\ outcome = "returned"
CorpusReturned == fn = "calculateCorpus" /\ outcome = "returned"

\* fields inv and val of the entries of g never fall from an entry to the next
GrowthRises(g, inv, val) ==
    \A k \in 1..(Len(g) - 1) :
        Le(g[k][inv], g[k + 1][inv]) /\ Le(g[k][val], g[k + 1][val])

\* the whole years of a period
WholeYears(period) == Numer(Floor(period))

\* C16: for every accepted input the yearWiseGrowth of calculateSIP and of
\* calculateCorpus has one entry for each year y = 1, 2, ... up to the
\* tenure, in that order; the entry of year y holds the amount invested and
\* the calculator's own future value at 12y months; and the invested amount
\* and the value never fall from one entry to the next.
C16_YearWiseGrowth ==
    /\ SipReturned =>
           /\ Len(yearWiseGrowth(result)) = WholeYears(args[2])
           /\ \A y \in 1..Len(yearWiseGrowth(result)) :
                  /\ yearWiseGrowth(result)[y][1] = y
                  /\ yearWiseGrowth(result)[y][2] = Round2(Mul(args[1], I(12 * y)))
                  /\ yearWiseGrowth(result)[y][4]
                         = Round2(SipFutureValueOfAnnuity(args[1], args[3], I(12 * y)))
           /\ GrowthRises(yearWiseGrowth(result), 2, 4)
    /\ CorpusReturned =>
           /\ Len(yearWiseGrowth(result)) = WholeYears(Sub(args[2], args[1]))
           /\ \A y \in 1..Len(yearWiseGrowth(result)) :
                  /\ yearWiseGrowth(result)[y][1] = y
                  /\ yearWiseGrowth(result)[y][3] = Round2(Mul(args[3], I(12 * y)))
                  /\ yearWiseGrowth(result)[y][4]
                         = Round2(CorpusFutureValueOfAnnuity(args[3], args[4], I(12 * y)))
           /\ GrowthRises(yearWiseGrowth(result), 3, 4)

C16_Witness ==
    /\ SipReturned
    /\ args = <<I(1000), I(MaxYears), I(12)>>
    /\ Len(yearWiseGrowth(result)) = MaxYears
    /\ \A k \in 1..(MaxYears - 1) :
           Lt(yearWiseGrowth(result)[k][4], yearWiseGrowth(result)[k + 1][4])


----------------------------------------------------------------------------
\* C17: in every result of calculateSIP the last yearWiseGrowth entry has the
\* totalInvestment and the totalValue of the result itself, and in every
\* result of calculateCorpus the last entry's totalInvested and corpus are
\* the result's totalSavingsInvested and retirementCorpus, whether the period
\* is a whole number of years or not.
C17_LastGrowthEntryIsTotal ==
    /\ SipReturned =>
           /\ Len(yearWiseGrowth(result)) > 0
           /\ yearWiseGrowth(result)[Len(yearWiseGrowth(result))][2] = result[4]
           /\ yearWiseGrowth(result)[Len(yearWiseGrowth(result))][4]
                  = totalValue(result)
    /\ CorpusReturned =>
           /\ Len(yearWiseGrowth(result)) > 0
           /\ yearWiseGrowth(result)[Len(yearWiseGrowth(result))][3] = result[7]
           /\ yearWiseGrowth(result)[Len(yearWiseGrowth(result))][4]
                  = retirementCorpus(result)


----------------------------------------------------------------------------
Calculators ==
    {"calculateEMI", "calculateInterest", "calculateSIP", "calculateCorpus",
     "calculateLoanEligibility", "calculateFD"}

\* where the current call has its interest rate, and the instrument's range
RateOfCall ==
    CASE fn \in {"calculateEMI", "calculateInterest", "calculateFD"} -> args[2]
      [] fn \in {"calculateSIP", "calculateLoanEligibility"} -> args[3]
      [] fn = "calculateCorpus" -> args[4]

RateInRange ==
    CASE fn \in {"calculateEMI", "calculateInterest"} ->
            Between(RateOfCall, I(0), I(100))
      [] fn \in {"calculateSIP", "calculateCorpus"} -> Between(RateOfCall, I(1), I(20))
      [] fn = "calculateLoanEligibility" -> Between(RateOfCall, I(1), I(30))
      [] fn = "calculateFD" -> Between(RateOfCall, I(1), I(15))

RateMessage ==
    CASE fn \in {"calculateEMI", "calculateInterest"} ->
            "Interest rate must be between 0 and 100"
      [] fn \in {"calculateSIP", "calculateCorpus"} ->
            "Expected ROI must be between 1% and 20%"
      [] fn = "calculateLoanEligibility" -> "Interest rate must be between 1% and 30%"
      [] fn = "calculateFD" -> "Interest rate must be between 1% and 15%"

\* whether the arguments of the current call other than the rate are all
\* present and in the domain of the calculator called
ArgsBesideRateInDomain ==
    CASE fn = "calculateEMI" ->
            Positive(args[1]) /\ Positive(args[3]) /\ IsInteger(args[3])
      [] fn = "calculateInterest" ->
            /\ Positive(args[1])
            /\ Positive(args[3]) /\ Le(args[3], I(100))
            /\ args[4] \in {"simple", "compound"}
      [] fn = "calculateFD" ->
            /\ Between(args[1], I(1000), args[1])
            /\ Positive(args[3]) /\ Le(args[3], I(10))
      [] fn = "calculateSIP" ->
            Between(args[1], I(500), args[1]) /\ Between(args[2], I(1), I(50))
      [] fn = "calculateCorpus" ->
            /\ Between(args[1], I(18), I(100))
            /\ Between(args[2], I(40), I(100))
            /\ Gt(args[2], args[1])
            /\ Positive(args[3])
      [] fn = "calculateLoanEligibility" ->
            /\ Between(args[1], I(10000), args[1])
            /\ Between(args[2], I(1000), args[2])
            /\ Lt(args[2], args[1])
            /\ Le(Mul(args[2], I(100)), Mul(args[1], I(80)))
            /\ Between(args[4], I(1), I(30))

\* C18: each calculator accepts an interest rate exactly when it lies in the
\* range of its instrument (0 to 100 for calculateEMI and calculateInterest,
\* 1 to 20 for calculateSIP and calculateCorpus, 1 to 30 for
\* calculateLoanEligibility, 1 to 15 for calculateFD), and rejects every
\* other value, a missing one included, with its validation error.
C18_RateAcceptedInRange ==
    (fn \in Calculators /\ ArgsBesideRateInDomain)
    => IF RateInRange
       THEN outcome = "returned"
       ELSE outcome = "threw" /\ error = RateMessage


----------------------------------------------------------------------------
\* the calculators that take a tenure
TenureCalculators == Calculators \ {"calculateCorpus"}

\* where the current call has its tenure
TenureOfCall ==
    CASE fn \in {"calculateEMI", "calculateInterest", "calculateFD"} -> args[3]
      [] fn = "calculateSIP" -> args[2]
      [] fn = "calculateLoanEligibility" -> args[4]

\* a positive number of years up to the bound
PositiveUpTo(v, bound) == Positive(v) /\ Le(v, I(bound))

\* the tenures the claim has accepted: positive whole months for calculateEMI,
\* and every positive number of years up to the bound for the others
TenureAsStated ==
    CASE fn = "calculateEMI" -> Positive(TenureOfCall) /\ IsInteger(TenureOfCall)
      [] fn = "calculateInterest" -> PositiveUpTo(TenureOfCall, 100)
      [] fn = "calculateSIP" -> PositiveUpTo(TenureOfCall, 50)
      [] fn = "calculateLoanEligibility" -> PositiveUpTo(TenureOfCall, 30)
      [] fn = "calculateFD" -> PositiveUpTo(TenureOfCall, 10)

\* the same, with calculateSIP and calculateLoanEligibility starting at 1 year
TenureFromOneYear ==
    CASE fn \in {"calculateEMI", "calculateInterest", "calculateFD"} -> TenureAsStated
      [] fn = "calculateSIP" -> Between(TenureOfCall, I(1), I(50))
      [] fn = "calculateLoanEligibility" -> Between(TenureOfCall, I(1), I(30))

TenureMessageOfCall ==
    CASE fn = "calculateEMI" -> TenureMessage
      [] fn = "calculateInterest" -> "Time period must be between 0.1 and 100 years"
      [] fn = "calculateSIP" -> "Investment period must be between 1 and 50 years"
      [] fn = "calculateLoanEligibility" -> "Loan tenure must be between 1 and 30 years"
      [] fn = "calculateFD" -> "Tenure must be between 1 and 10 years"

\* whether the arguments of the current call other than the tenure are all
\* present and in the domain of the calculator called
ArgsBesideTenureInDomain ==
    CASE fn = "calculateEMI" ->
            Positive(args[1]) /\ Between(args[2], I(0), I(100))
      [] fn = "calculateInterest" ->
            /\ Positive(args[1])
            /\ Between(args[2], I(0), I(100))
            /\ args[4] \in {"simple", "compound"}
      [] fn = "calculateFD" ->
            Between(args[1], I(1000), args[1]) /\ Between(args[2], I(1), I(15))
      [] fn = "calculateSIP" ->
            Between(args[1], I(500), args[1]) /\ Between(args[3], I(1), I(20))
      [] fn = "calculateLoanEligibility" ->
            /\ Between(args[1], I(10000), args[1])
            /\ Between(args[2], I(1000), args[2])
            /\ Lt(args[2], args[1])
            /\ Le(Mul(args[2], I(100)), Mul(args[1], I(80)))
            /\ Between(args[3], I(1), I(30))

----------------------------------------------------------------------------
\* P * R * T / 100
SimpleInterestOf(P, R, T) == Div(Mul(P, Mul(R, T)), I(100))

\* C20: for every valid (P, R, T) with interestType 'simple', a fractional T
\* included, calculateInterest returns interestAmount = round2(P*R*T/100) and
\* totalAmount = round2(P + P*R*T/100); (10000, 5, 2) gives 1000.00 and
\* 11000.00.
C20_SimpleInterest ==
    (InterestReturned /\ ArgsInDomain /\ args[4] = "simple")
    => /\ interestAmount(result)
              = Round2(SimpleInterestOf(args[1], args[2], args[3]))
       /\ totalAmount(result)
              = Round2(Add(args[1], SimpleInterestOf(args[1], args[2], args[3])))
       /\ args = <<I(10000), I(5), I(2), "simple">>
              => interestAmount(result) = I(1000) /\ totalAmount(result) = I(11000)

\* simple interest over a year and a half
C20_Witness ==
    /\ InterestReturned
    /\ args = <<I(10000), I(5), Q(3, 2), "simple">>
    /\ interestAmount(result) = I(750)
    /\ totalAmount(result) = I(10750)


----------------------------------------------------------------------------
\* C21: for every input a calculator's validator accepts, each loop of that
\* calculator ends within 100 iterations: the amortization schedule over the
\* months (an entry per iteration), the year-wise breakdown of the interest
\* calculator and the year-wise growth of the SIP and corpus calculators.
C21_LoopsWithinHundred ==
    /\ (EmiReturned /\ schedule # <<>>) => Len(schedule) <= 100
    /\ InterestReturned => Len(yearWiseBreakdown(result)) <= 100
    /\ (SipReturned \/ CorpusReturned) => Len(yearWiseGrowth(result)) <= 100


----------------------------------------------------------------------------
GpaCall == fn = "calculateGPA"

\* a course with a name of two characters or more, 1 to 10 credits and a
\* letter grade that is a key of the grade-point table
GoodCourse(course) ==
    /\ Tag(course[1]) = "string" /\ Len(Trim(course[1][2])) >= 2
    /\ Between(course[2], I(1), I(10))
    /\ course[3] \in DOMAIN GRADE_POINTS

\* C25: calculateGPA accepts every letter grade that is a key of
\* GRADE_POINTS, 'F' (0.0 grade points) included: a non-empty course list
\* whose courses all have a valid name, valid credits and such a grade
\* yields a GPA result, not an 'Invalid grade' error.
C25_EveryTableGradeAccepted ==
    (/\ GpaCall
     /\ Tag(args[2]) = "array" /\ args[2][2] # <<>>
     /\ \A k \in 1..Len(args[2][2]) : GoodCourse(args[2][2][k]))
    => outcome = "returned"


----------------------------------------------------------------------------
\* a call of calculateTaxBySlabs on its own: args are the taxable income and
\* the slabs, result is <<totalTax, taxBreakdown>>
SlabsRun == fn = "calculateTaxBySlabs" /\ outcome = "returned"

\* the slab <<min, max, rate>> an entry of the breakdown is labelled with
SlabOf(entry) == CHOOSE slab \in {args[2][k] : k \in 1..Len(args[2])} :
                     <<slab[1], slab[2]>> = entry[1]

\* C27: for a taxable income above 0 and each age category the breakdown of
\* calculateTaxBySlabs has slab incomes that sum exactly to the taxable
\* income, none above the width max - min of its slab, and totalTax is the
\* sum over the breakdown of income x rate / 100; for a taxable income of 0
\* or less the breakdown is empty and totalTax is 0.
C27_SlabsCoverIncome ==
    SlabsRun =>
        IF Gt(args[1], I(0))
        THEN /\ SumOver([k \in 1..Len(result[2]) |-> result[2][k][2]],
                        1, Len(result[2])) = args[1]
             /\ \A k \in 1..Len(result[2]) :
                    \/ SlabOf(result[2][k])[2] = Infinity
                    \/ Le(result[2][k][2],
                          Sub(SlabOf(result[2][k])[2], SlabOf(result[2][k])[1]))
             /\ result[1]
                    = SumOver([k \in 1..Len(result[2]) |->
                                  Div(Mul(result[2][k][2], result[2][k][3]), I(100))],
                              1, Len(result[2]))
        ELSE result = <<I(0), <<>> >>

\* an income of 1200000 below 60 is spread over all four slabs
C27_Witness ==
    /\ SlabsRun
    /\ args[1] = I(1200000)
    /\ Len(result[2]) = 4
    /\ result[2][4][2] = I(200000)
    /\ result[1] = I(172500)


----------------------------------------------------------------------------
TaxReturned == fn = "calculateTax" /\ outcome = "returned"

\* the deduction of the current call under a key, 0 when the key is missing
DeductionOf(key) ==
    IF key \in DOMAIN args[3][2] /\ IsNum(args[3][2][key]) THEN args[3][2][key]
    ELSE I(0)

Capped(v, cap) == IF Le(v, I(cap)) THEN v ELSE I(cap)

\* max(0, annualIncome - (min(80C, 150000) + min(80D, 100000) + hra + 80G + other))
TaxableOfCall ==
    Max0(Sub(args[1],
             Add(Capped(DeductionOf("section80C"), 150000),
                 Add(Capped(DeductionOf("section80D"), 100000),
                     Add(DeductionOf("hra"),
                         Add(DeductionOf("section80G"), DeductionOf("other")))))))

----------------------------------------------------------------------------
\* C29: the validator of calculateTax accepts every annual income greater
\* than or equal to 0, as its error message says: a call with an annualIncome
\* of 0 or more, a valid age category and a deductions object without
\* negative amounts returns a result, with zero tax when the income is 0.
C29_ZeroIncomeAccepted ==
    (/\ fn = "calculateTax"
     /\ IsNum(args[1]) /\ Ge(args[1], I(0))
     /\ args[2] \in {"below-60", "60-80", "above-80"}
     /\ Tag(args[3]) = "object"
     /\ \A key \in DOMAIN args[3][2] : Ge(args[3][2][key], I(0)))
    => /\ outcome = "returned"
       /\ args[1] = I(0) => result[9] = I(0)


----------------------------------------------------------------------------
EligibilityReturned == fn = "calculateLoanEligibility" /\ outcome = "returned"

\* emiCapacity x loanTenure x 12 of the current call
PaidOverTenure == Mul(args[2], Mul(args[4], I(12)))

\* C30: for every input calculateLoanEligibility accepts, totalAmountPayable
\* is emiCapacity x loanTenure x 12 to 2 decimals, totalInterestPayable is
\* not negative, eligibleLoanAmount + totalInterestPayable is
\* totalAmountPayable within 0.01, and eligibleLoanAmount is at most
\* emiCapacity x months.
C30_EligibilityTotals ==
    EligibilityReturned =>
        /\ result[9] = Round2(PaidOverTenure)
        /\ Ge(result[8], I(0))
        /\ Within(Add(eligibleLoanAmount(result), result[8]), result[9], Q(1, 100))
        /\ Le(eligibleLoanAmount(result), PaidOverTenure)

\* a year and a half of 8000 a month at 12%
C30_Witness ==
    /\ EligibilityReturned
    /\ args = <<I(20000), I(8000), I(12), Q(3, 2)>>
    /\ result[9] = I(144000)
    /\ Gt(result[8], I(0))


----------------------------------------------------------------------------
\* the constraints of the current call that are violated, in the validator's
\* order, and the message of each
ViolatedChecks ==
    IF fn = "calculateEMI"
    THEN <<~Positive(args[1]),
           ~Between(args[2], I(0), I(100)),
           ~(Positive(args[3]) /\ IsInteger(args[3]))>>
    ELSE <<~Between(args[1], I(10000), args[1]),
           ~Between(args[2], I(1000), args[2]),
           ~Lt(args[2], args[1]),
           ~Le(Mul(args[2], I(100)), Mul(args[1], I(80))),
           ~Between(args[3], I(1), I(30)),
           ~Between(args[4], I(1), I(30))>>

CheckMessages ==
    IF fn = "calculateEMI"
    THEN <<"Loan amount must be greater than 0",
           "Interest rate must be between 0 and 100", TenureMessage>>
    ELSE <<"Monthly income must be at least 10,000",
           "EMI capacity must be at least 1,000",
           "EMI capacity must be less than monthly income",
           "EMI capacity should not exceed 80% of monthly income",
           "Interest rate must be between 1% and 30%",
           "Loan tenure must be between 1 and 30 years">>

FirstViolated ==
    CHOOSE k \in 1..Len(ViolatedChecks) :
        ViolatedChecks[k] /\ \A j \in 1..(k - 1) : ~ViolatedChecks[j]

\* C24: a call of calculateEMI or calculateLoanEligibility that violates
\* several constraints at once throws one error, whose message is that of the
\* first violated constraint in the validator's order (loan amount, interest
\* rate, tenure; income minimum, EMI-capacity minimum, capacity below income,
\* capacity at most 80% of income, rate, tenure).
C24_FirstViolatedCheck ==
    (/\ fn \in {"calculateEMI", "calculateLoanEligibility"}
     /\ Cardinality({k \in 1..Len(ViolatedChecks) : ViolatedChecks[k]}) >= 2)
    => /\ outcome = "threw"
       /\ error = CheckMessages[FirstViolated]


----------------------------------------------------------------------------
EmiRouteRun == fn = "POST /emi-calculator/calculate"
FdRouteRun == fn = "POST /fd-calculator/calculate"

\* what the handler's own checks say of the body of the current request
RouteChecks ==
    IF EmiRouteRun
    THEN EmiRouteValidation(args[1][1], args[1][2], args[1][3])
    ELSE FdRouteValidation(args[1][1], args[1][2], args[1][3])

RouteMessages ==
    {"Loan amount must be greater than 0",
     "Interest rate must be between 0 and 100", TenureMessage,
     "Principal amount must be at least 1,000",
     "Interest rate must be between 1% and 15%",
     "Tenure must be between 1 and 10 years"}

C26_RouteAsController ==
    (EmiRouteRun /\ args[1] # Undefined)
    => IF EmiValidateInputs(args[1][1], args[1][2], args[1][3]) = NoError
       THEN /\ responses[1][1] = 200
            /\ responses[1][2] = TRUE
            /\ monthlyEMI(responses[1][3])
                 = monthlyEMI(EmiResult(args[1][1], args[1][2], args[1][3]))
            /\ totalInterest(responses[1][3])
                 = totalInterest(EmiResult(args[1][1], args[1][2], args[1][3]))
            /\ totalPayable(responses[1][3])
                 = totalPayable(EmiResult(args[1][1], args[1][2], args[1][3]))
       ELSE responses[1] = <<400, FALSE,
                             EmiValidateInputs(args[1][1], args[1][2], args[1][3])>>


----------------------------------------------------------------------------
====
